---- MODULE Spec2Model ----
(***************************************************************************)
(* Model of acoshift/go-services: the exchange matching core              *)
(* (package exchange), the wallet ledger (package wallet), the TOTP users  *)
(* (package totpuser) and the in-memory repositories the exchange tests    *)
(* run them against.                                                       *)
(*                                                                         *)
(* Decimals.  shopspring/decimal values are exact: a decimal is the pair   *)
(* of an integer value and an exponent, value * 10^exp.  The model keeps   *)
(* the pair, in the form with exp <= 0 and no trailing zero, so that two   *)
(* decimals are Equal exactly when their pairs are equal.                  *)
(*                                                                         *)
(* Calls.  A handler is a sequence of Repository / Wallet calls, each      *)
(* followed by "if err != nil { return err }".  The calls are operators    *)
(* on a call state cs (the stores, the value the latest call returned and  *)
(* err); a call made after err is set returns cs unchanged, which is the   *)
(* early return.  A handler that runs among other handlers is suspended at *)
(* a Repository call: cs.log holds what the calls it has made returned,    *)
(* and the handler is run again over the stores of the moment, taking the  *)
(* logged results for the calls already made and making the next one.      *)
(*                                                                         *)
(* Time.  Only the order of the creation times and whether a stamp is the  *)
(* zero time decide anything in the code.  CreatedAt is the reading of a   *)
(* clock that ticks at every CreateOrder; MatchedAt and FinishedAt hold    *)
(* the number of times the field was stamped with time.Now(), 0 being the  *)
(* zero time.Time.                                                         *)
(***************************************************************************)
EXTENDS Integers, Sequences, FiniteSets, TLC

VARIABLES
    orders,   \* memoryExchangeRepository.data: the persisted orders, in creation order
    bal,      \* memoryWalletRepository.data: user -> currency -> balance
    now,      \* the clock: the time.Now() reading of the latest CreateOrder
    last,     \* the public operation that made the latest step, its arguments and its result
    hist,     \* the InsertHistory calls made in that step, in call order
    txs,      \* the InsertTx calls (journal entries) made in that step, in call order
    nWallet,  \* number of direct wallet Add / Transfer calls made so far
    pending,  \* the calls of the exchange in progress, each suspended at a Repository call
    otpSecret, \* totpuser.Repository: user -> stored OTP secret ("" = none)
    otpLast   \* the latest totpuser call, its arguments and what it returned

vars == <<orders, bal, now, last, hist, txs, nWallet, pending, otpSecret, otpLast>>

----------------------------------------------------------------------------
(* Bounds of the model *)

\* orders created in a run of the exchange on preloaded wallets (Spec)
MaxOrders == 2
\* orders created in a behaviour of SpecBook
MaxBookOrders == 3
\* orders created and direct wallet calls made in a run from construction (SpecLedger)
MaxLedgerOrders == 1
MaxWalletOps == 2
\* the Repository calls an operation of the wallet makes, of which one may fail
MaxFaultAt == 5
\* orders created in the runs with calls in progress at the same time
MaxConcurrentOrders == 2
\* calls of the exchange in progress at the same time
MaxInFlight == 2
\* orders created over the stores that may fail, and the Repository calls of
\* a placement of which one may fail
MaxMatchingOrders == 3
MaxMatchingFaultAt == 32
\* the Repository calls of one totpuser method, any of which may fail
MaxOTPFaultAt == 2

----------------------------------------------------------------------------
(* Decimals (shopspring/decimal) *)

RECURSIVE Pow10(_)
Pow10(n) == IF n <= 0 THEN 1 ELSE 10 * Pow10(n - 1)

\* the decimal value * 10^exp
RECURSIVE Decimal(_, _)
Decimal(value, exp) ==
    IF exp > 0 THEN Decimal(value * 10, exp - 1)
    ELSE IF exp < 0 /\ value % 10 = 0 THEN Decimal(value \div 10, exp + 1)
    ELSE [value |-> value, exp |-> exp]

\* d("n") for a whole number n
D(n) == Decimal(n, 0)

Zero == D(0)

MinExp(a, b) == IF a.exp < b.exp THEN a.exp ELSE b.exp

\* the integer a / 10^exp, for exp <= a.exp
Rescale(a, exp) == a.value * Pow10(a.exp - exp)

\* -1, 0 or 1 as a is less than, equal to or greater than b
Cmp(a, b) ==
    IF Rescale(a, MinExp(a, b)) < Rescale(b, MinExp(a, b)) THEN -1
    ELSE IF Rescale(a, MinExp(a, b)) > Rescale(b, MinExp(a, b)) THEN 1
    ELSE 0

Equal(a, b) == Cmp(a, b) = 0
LessThan(a, b) == Cmp(a, b) = -1
LessThanOrEqual(a, b) == Cmp(a, b) <= 0
GreaterThan(a, b) == Cmp(a, b) = 1

Neg(a) == Decimal(-a.value, a.exp)

\* decimal.Decimal.Add (Add is the wallet's operation here)
DecimalAdd(a, b) ==
    Decimal(Rescale(a, MinExp(a, b)) + Rescale(b, MinExp(a, b)), MinExp(a, b))

Sub(a, b) == DecimalAdd(a, Neg(b))

Mul(a, b) == Decimal(a.value * b.value, a.exp + b.exp)

\* d("0.0025") of the reference fee policy
FeeFactor == Decimal(25, -4)

----------------------------------------------------------------------------
(* Enumerations and errors *)

Buy == "Buy"
Sell == "Sell"

ValidSide(side) == side = Buy \/ side = Sell

Active == "Active"
Matched == "Matched"
Cancelled == "Cancelled"

Limit == "Limit"
Market == "Market"

Ok == "ok"
ErrInvalidValue == "exchange: invalid order value"
ErrInvalidSide == "exchange: invalid order side"
ErrInvalidRate == "exchange: invalid order rate"
ErrOrderNotFound == "exchange: order not found"
ErrBalanceNotEnough == "wallet: balance is not enough"
WalletErrInvalidValue == "wallet: invalid value"
\* the error a Repository call returns when the store fails
ErrRepository == "repository: error"
\* panic("unreachable"): the handler does not return
Unreachable == "panic: unreachable"
\* the handler has not returned: it waits at a Repository call
Suspended == "suspended"

CurrencyBuy == "A"
CurrencySell == "B"
Currencies == {CurrencyBuy, CurrencySell}

getCurrency(side) ==
    IF side = Buy THEN CurrencyBuy
    ELSE IF side = Sell THEN CurrencySell
    ELSE Unreachable

\* the zero value of exchange.Order
ZeroOrder ==
    [ID |-> 0, UserID |-> "", Type |-> Limit, Side |-> Buy, Status |-> Active,
     Rate |-> Zero, Value |-> Zero, Remaining |-> Zero,
     CreatedAt |-> 0, MatchedAt |-> 0, FinishedAt |-> 0]

----------------------------------------------------------------------------
(* Inputs *)

Users == {"1", "2"}
Sides == {Buy, Sell}
Rates == {D(2), D(3)}
Values == {D(50), D(100)}

\* PlaceLimitOrder(userID, side, rate, value): every valid request, and
\* requests with a value, a rate or a side that validation rejects
LimitRequests ==
    (Users \X Sides \X Rates \X Values)
        \cup {<<"1", Buy, D(2), D(0)>>, <<"2", Sell, D(0), D(50)>>,
              <<"1", "Other", D(2), D(50)>>, <<"2", "Other", D(0), D(0)>>}

\* PlaceMarketOrder(userID, side, value)
MarketRequests ==
    (Users \X Sides \X Values)
        \cup {<<"1", Sell, D(0)>>, <<"2", "Other", D(100)>>}

\* wallet Add / Transfer values
Deltas == {D(-50), D(0), D(10), D(10000)}

----------------------------------------------------------------------------
(* Repository calls *)

Fail(cs, e) == [cs EXCEPT !.err = e]

\* what a Repository call returned: an order, an error the handler looks
\* at, a decimal; a call returns the zero value of what it does not return
Returned(order, err, value) == [order |-> order, err |-> err, value |-> value]

NoReturn == Returned(ZeroOrder, Ok, Zero)

\* budget of a handler that runs from its first call to its return
Whole == -1

\* A Repository call of a handler.  stored is the call state over the stores
\* after the call, ret what the call returns.  A call the handler made
\* before it was suspended is not made again: it returns what it returned
\* then.  A handler that may make no further call in this step is suspended
\* at the call.  The call of the operation for which the store fails returns
\* an error and writes nothing.
repositoryCall(cs, stored, ret) ==
    IF cs.err # Ok THEN cs
    ELSE IF cs.calls < Len(cs.log)
         THEN [cs EXCEPT !.calls = @ + 1,
                         !.ret = cs.log[cs.calls + 1].ret,
                         !.created = cs.log[cs.calls + 1].created]
    ELSE IF cs.budget = 0 THEN Fail(cs, Suspended)
    ELSE IF cs.calls + 1 = cs.fault
         THEN [cs EXCEPT !.calls = @ + 1, !.err = ErrRepository]
    ELSE IF cs.budget = Whole
         THEN [stored EXCEPT !.calls = @ + 1, !.ret = ret]
    ELSE [stored EXCEPT !.calls = @ + 1, !.ret = ret, !.budget = @ - 1,
                        !.log = Append(@, [ret |-> ret, created |-> stored.created])]

----------------------------------------------------------------------------
(* Wallet repository (memoryWalletRepository) and wallet service *)

GetBalance(cs, userID, currency) ==
    repositoryCall(cs, cs, Returned(ZeroOrder, Ok, cs.bal[userID][currency]))

AddBalance(cs, userID, currency, value) ==
    repositoryCall(cs, [cs EXCEPT !.bal[userID][currency] = DecimalAdd(@, value)], NoReturn)

Tx(userID, currency, value) == [user |-> userID, currency |-> currency, value |-> value]

InsertTx(cs, userID, currency, value) ==
    repositoryCall(cs, [cs EXCEPT !.txs = Append(@, Tx(userID, currency, value))], NoReturn)

\* the balance update of Add and its journal entry
addEntry(cs, userID, currency, value) ==
    InsertTx(AddBalance(cs, userID, currency, value), userID, currency, value)

\* a debit, after the GetBalance call that cs is the result of
addDebit(cs, userID, currency, value) ==
    IF cs.err # Ok THEN cs
    ELSE IF LessThan(cs.ret.value, value) THEN Fail(cs, ErrBalanceNotEnough)
    ELSE addEntry(cs, userID, currency, value)

\* faulty variant: a zero value is added and journalled like any other
AddWithoutShortCircuit(cs, userID, currency, value) ==
    IF cs.err # Ok THEN cs
    ELSE IF LessThan(value, Zero)
         THEN addDebit(GetBalance(cs, userID, currency), userID, currency, value)
    ELSE addEntry(cs, userID, currency, value)

\* faulty variant: a debit is refused when it would take the balance below zero
addDebitNeverOverdraws(cs, userID, currency, value) ==
    IF cs.err # Ok THEN cs
    ELSE IF LessThan(DecimalAdd(cs.ret.value, value), Zero) THEN Fail(cs, ErrBalanceNotEnough)
    ELSE addEntry(cs, userID, currency, value)

AddNeverOverdraws(cs, userID, currency, value) ==
    IF cs.err # Ok THEN cs
    ELSE IF Equal(value, Zero) THEN cs
    ELSE IF LessThan(value, Zero)
         THEN addDebitNeverOverdraws(GetBalance(cs, userID, currency), userID, currency, value)
    ELSE addEntry(cs, userID, currency, value)

Add(cs, userID, currency, value) ==
    IF cs.err # Ok THEN cs
    ELSE IF Equal(value, Zero) THEN cs
    ELSE IF LessThan(value, Zero)
         THEN addDebit(GetBalance(cs, userID, currency), userID, currency, value)
    ELSE addEntry(cs, userID, currency, value)

\* faulty variant: a negative value is transferred like any other
TransferWithoutSignCheck(cs, srcUserID, dstUserID, currency, value) ==
    IF cs.err # Ok THEN cs
    ELSE IF Equal(value, Zero) THEN cs
    ELSE Add(Add(cs, srcUserID, currency, Neg(value)), dstUserID, currency, value)

Transfer(cs, srcUserID, dstUserID, currency, value) ==
    IF cs.err # Ok THEN cs
    ELSE IF Equal(value, Zero) THEN cs
    ELSE IF LessThan(value, Zero) THEN Fail(cs, WalletErrInvalidValue)
    ELSE Add(Add(cs, srcUserID, currency, Neg(value)), dstUserID, currency, value)

----------------------------------------------------------------------------
(* Exchange repository (memoryExchangeRepository) *)

\* the order as CreateOrder stores it
createdOrder(cs, order) ==
    [order EXCEPT !.ID = Len(cs.orders) + 1, !.CreatedAt = cs.now + 1]

\* faulty variant: the order is created although the call before it failed
CreateOrderDespiteError(cs, order) ==
    [cs EXCEPT !.orders = Append(@, createdOrder(cs, order)),
               !.now = @ + 1,
               !.created = createdOrder(cs, order)]

CreateOrder(cs, order) ==
    repositoryCall(cs,
                   [cs EXCEPT !.orders = Append(@, createdOrder(cs, order)),
                              !.now = @ + 1,
                              !.created = createdOrder(cs, order)],
                   Returned(createdOrder(cs, order), Ok, Zero))

HasOrder(data, orderID) == orderID \in 1..Len(data)

GetOrder(cs, orderID) ==
    repositoryCall(cs, cs,
                   IF HasOrder(cs.orders, orderID)
                   THEN Returned(cs.orders[orderID], Ok, Zero)
                   ELSE Returned(ZeroOrder, ErrOrderNotFound, Zero))

SetOrderStatus(cs, orderID, status) ==
    repositoryCall(cs,
                   IF HasOrder(cs.orders, orderID)
                   THEN [cs EXCEPT !.orders[orderID].Status = status]
                   ELSE cs,
                   NoReturn)

SetOrderStatusRemainingAndStampMatched(cs, orderID, status, remaining) ==
    repositoryCall(cs,
                   IF HasOrder(cs.orders, orderID)
                   THEN [cs EXCEPT !.orders[orderID].Status = status,
                                   !.orders[orderID].Remaining = remaining,
                                   !.orders[orderID].MatchedAt = @ + 1]
                   ELSE cs,
                   NoReturn)

StampOrderFinished(cs, orderID) ==
    repositoryCall(cs,
                   IF HasOrder(cs.orders, orderID)
                   THEN [cs EXCEPT !.orders[orderID].FinishedAt = @ + 1]
                   ELSE cs,
                   NoReturn)

GetFee(cs, userID, side, rate, amount) ==
    repositoryCall(cs, cs, Returned(ZeroOrder, Ok, Mul(amount, FeeFactor)))

RECURSIVE ScanHighestBuy(_, _, _)
ScanHighestBuy(data, i, result) ==
    IF i > Len(data) THEN result
    ELSE IF data[i].Side = Buy /\ data[i].Status = Active /\ data[i].Type = Limit
         THEN IF Equal(result.Rate, Zero) THEN ScanHighestBuy(data, i + 1, data[i])
              ELSE IF Equal(data[i].Rate, result.Rate)
                   THEN IF data[i].CreatedAt < result.CreatedAt
                        THEN ScanHighestBuy(data, i + 1, data[i])
                        ELSE ScanHighestBuy(data, i + 1, result)
              ELSE IF GreaterThan(data[i].Rate, result.Rate)
                   THEN ScanHighestBuy(data, i + 1, data[i])
              ELSE ScanHighestBuy(data, i + 1, result)
    ELSE ScanHighestBuy(data, i + 1, result)

\* what a scan returns for the order its loop ended with
Scanned(result) ==
    Returned(result, IF result.CreatedAt = 0 THEN ErrOrderNotFound ELSE Ok, Zero)

GetActiveBuyLimitOrderHighestRate(cs) ==
    repositoryCall(cs, cs, Scanned(ScanHighestBuy(cs.orders, 1, ZeroOrder)))

RECURSIVE ScanLowestSell(_, _, _)
ScanLowestSell(data, i, result) ==
    IF i > Len(data) THEN result
    ELSE IF data[i].Side = Sell /\ data[i].Status = Active /\ data[i].Type = Limit
         THEN IF Equal(result.Rate, Zero) THEN ScanLowestSell(data, i + 1, data[i])
              ELSE IF Equal(data[i].Rate, result.Rate)
                   THEN IF data[i].CreatedAt < result.CreatedAt
                        THEN ScanLowestSell(data, i + 1, data[i])
                        ELSE ScanLowestSell(data, i + 1, result)
              ELSE IF LessThan(data[i].Rate, result.Rate)
                   THEN ScanLowestSell(data, i + 1, data[i])
              ELSE ScanLowestSell(data, i + 1, result)
    ELSE ScanLowestSell(data, i + 1, result)

\* faulty variant: the scan starts after the first order of the repository
GetActiveSellLimitOrderSkippingFirst(cs) ==
    repositoryCall(cs, cs, Scanned(ScanLowestSell(cs.orders, 2, ZeroOrder)))

GetActiveSellLimitOrderLowestRate(cs) ==
    repositoryCall(cs, cs, Scanned(ScanLowestSell(cs.orders, 1, ZeroOrder)))

\* an InsertHistory call; at: how many journal entries the step had written
\* when the call was made, which places the call among the ledger calls
History(cs, srcOrder, dstOrder, side, rate, amount, srcFee, dstFee) ==
    [src |-> srcOrder, dst |-> dstOrder, side |-> side, rate |-> rate,
     amount |-> amount, srcFee |-> srcFee, dstFee |-> dstFee, at |-> Len(cs.txs)]

\* faulty variant: the entry is put before the earlier entries
InsertHistoryFirst(cs, srcOrder, dstOrder, side, rate, amount, srcFee, dstFee) ==
    repositoryCall(cs,
                   [cs EXCEPT !.hist = <<History(cs, srcOrder, dstOrder, side, rate,
                                                 amount, srcFee, dstFee)>> \o @],
                   NoReturn)

InsertHistory(cs, srcOrder, dstOrder, side, rate, amount, srcFee, dstFee) ==
    repositoryCall(cs,
                   [cs EXCEPT !.hist = Append(@, History(cs, srcOrder, dstOrder, side, rate,
                                                         amount, srcFee, dstFee))],
                   NoReturn)

----------------------------------------------------------------------------
(* Matching core (exchange.service) *)

\* the result of a matching run: the call state and the working copy of the
\* aggressor order (the Go code mutates *order in place)
Run(cs, order) == [cs |-> cs, order |-> order]

\* s.wallet.Add(ctx, userID, s.getCurrency(ctx, side), value) with currency
\* the value of the getCurrency call: a panic there ends the handler before
\* Add is called
walletAdd(cs, userID, currency, value) ==
    IF cs.err # Ok THEN cs
    ELSE IF currency = Unreachable THEN Fail(cs, Unreachable)
    ELSE Add(cs, userID, currency, value)

\* the counter order a matching run fetches for an aggressor of this side
findMatchOrder(cs, side) ==
    IF side = Buy
    THEN GetActiveSellLimitOrderLowestRate(cs)
    ELSE GetActiveBuyLimitOrderHighestRate(cs)

\* faulty variant: the fill always takes the whole of the aggressor's remaining
fillAmountOfOrder(order, matchOrder) == order.Remaining

\* faulty variant: the amount is what remains of the counter order
fillAmountOfCounter(order, matchOrder) == matchOrder.Remaining

\* amount of a fill
fillAmount(order, matchOrder) ==
    IF LessThanOrEqual(matchOrder.Remaining, order.Remaining)
    THEN matchOrder.Remaining
    ELSE order.Remaining

\* faulty variant: a filled order is Matched whatever remains of it
fillOrderAlwaysMatched(order, amount) ==
    [order EXCEPT !.Remaining = Sub(@, amount), !.Status = Matched]

\* a working copy after a fill: Remaining reduced, Matched when nothing remains
fillOrder(order, amount) ==
    [order EXCEPT !.Remaining = Sub(@, amount),
                  !.Status = IF LessThanOrEqual(Sub(order.Remaining, amount), Zero)
                             THEN Matched ELSE @]

\* faulty variant: the counter order is not written back
persistMatchOrderSkipped(cs, matchOrder) == cs

\* the counter order is written back; matchOrder is the copy after the fill
persistMatchOrder(cs, matchOrder) ==
    SetOrderStatusRemainingAndStampMatched(
        IF LessThanOrEqual(matchOrder.Remaining, Zero)
        THEN StampOrderFinished(cs, matchOrder.ID)
        ELSE cs,
        matchOrder.ID, matchOrder.Status, matchOrder.Remaining)

\* faulty variant: a Sell aggressor is credited the amount, not the amount at the rate
limitCreditsSellUnpriced(cs, order, matchOrder, rate, amount, orderFee, matchOrderFee) ==
    IF order.Side = Buy
    THEN walletAdd(walletAdd(cs, order.UserID, getCurrency(matchOrder.Side),
                             Sub(amount, orderFee)),
                   matchOrder.UserID, getCurrency(order.Side),
                   Mul(Sub(amount, matchOrderFee), rate))
    ELSE walletAdd(walletAdd(cs, order.UserID, getCurrency(matchOrder.Side),
                             Sub(amount, orderFee)),
                   matchOrder.UserID, getCurrency(order.Side), Sub(amount, matchOrderFee))

\* faulty variant: the aggressor is credited without its fee
limitCreditsAggressorFree(cs, order, matchOrder, rate, amount, orderFee, matchOrderFee) ==
    IF order.Side = Buy
    THEN walletAdd(walletAdd(cs, order.UserID, getCurrency(matchOrder.Side), amount),
                   matchOrder.UserID, getCurrency(order.Side),
                   Mul(Sub(amount, matchOrderFee), rate))
    ELSE walletAdd(walletAdd(cs, order.UserID, getCurrency(matchOrder.Side),
                             Mul(amount, rate)),
                   matchOrder.UserID, getCurrency(order.Side), Sub(amount, matchOrderFee))

limitCredits(cs, order, matchOrder, rate, amount, orderFee, matchOrderFee) ==
    IF order.Side = Buy
    THEN walletAdd(walletAdd(cs, order.UserID, getCurrency(matchOrder.Side),
                             Sub(amount, orderFee)),
                   matchOrder.UserID, getCurrency(order.Side),
                   Mul(Sub(amount, matchOrderFee), rate))
    ELSE walletAdd(walletAdd(cs, order.UserID, getCurrency(matchOrder.Side),
                             Mul(Sub(amount, orderFee), rate)),
                   matchOrder.UserID, getCurrency(order.Side), Sub(amount, matchOrderFee))

\* faulty variant: the rate difference is never returned
limitRebateNone(cs, order, rate, amount) == cs

\* faulty variant: the whole escrow of the fill is returned
limitRebateOfEscrow(cs, order, rate, amount) ==
    IF cs.err # Ok THEN cs
    ELSE IF /\ order.Side = Buy
            /\ ~Equal(order.Rate, rate)
            /\ GreaterThan(Mul(amount, Sub(order.Rate, rate)), Zero)
         THEN walletAdd(cs, order.UserID, getCurrency(order.Side), Mul(amount, order.Rate))
    ELSE cs

limitRebate(cs, order, rate, amount) ==
    IF cs.err # Ok THEN cs
    ELSE IF /\ order.Side = Buy
            /\ ~Equal(order.Rate, rate)
            /\ GreaterThan(Mul(amount, Sub(order.Rate, rate)), Zero)
         THEN walletAdd(cs, order.UserID, getCurrency(order.Side),
                        Mul(amount, Sub(order.Rate, rate)))
    ELSE cs

\* history and ledger calls of one limit fill; order and matchOrder are the
\* copies after the fill
\* faulty variant: the history records the side of the aggressor
settleLimitSideOfOrder(cs, order, matchOrder, rate, amount, orderFee, matchOrderFee) ==
    limitRebate(
        limitCredits(
            InsertHistory(cs, order, matchOrder, order.Side, rate, amount, orderFee,
                          matchOrderFee),
            order, matchOrder, rate, amount, orderFee, matchOrderFee),
        order, rate, amount)

settleLimit(cs, order, matchOrder, rate, amount, orderFee, matchOrderFee) ==
    limitRebate(
        limitCredits(
            InsertHistory(cs, order, matchOrder, Buy, rate, amount, orderFee, matchOrderFee),
            order, matchOrder, rate, amount, orderFee, matchOrderFee),
        order, rate, amount)

RECURSIVE runLimitMatching(_, _)

\* faulty variant: the run ends after its first fill
nextLimitMatchingOnce(cs, order) == Run(cs, order)

\* the end of one pass: return the error, recurse while Active, or return
nextLimitMatching(cs, order) ==
    IF cs.err # Ok THEN Run(cs, order)
    ELSE IF order.Status = Active THEN runLimitMatching(cs, order)
    ELSE Run(cs, order)

\* the rest of a limit fill after the second GetFee call, of which cs is the
\* result
limitFillSettle(cs, order, matchOrder, rate, amount, orderFee) ==
    nextLimitMatching(
        settleLimit(cs, order, matchOrder, rate, amount, orderFee, cs.ret.value),
        order)

\* the rest of a limit fill after the first GetFee call, of which cs is the
\* result
limitFillFees(cs, order, matchOrder, rate, amount) ==
    limitFillSettle(
        GetFee(cs, matchOrder.UserID, matchOrder.Side, matchOrder.Rate, amount),
        order, matchOrder, rate, amount, cs.ret.value)

\* one fill of a limit aggressor; order and matchOrder are the copies before it
limitFill(cs, order, matchOrder, amount) ==
    limitFillFees(
        GetFee(persistMatchOrder(cs, fillOrder(matchOrder, amount)),
               order.UserID, order.Side, order.Rate, amount),
        fillOrder(order, amount), fillOrder(matchOrder, amount), matchOrder.Rate, amount)

\* faulty variant: the rate of the counter order is not compared with the limit
limitMatchingWithoutCrossCheck(cs, order) ==
    IF cs.err # Ok THEN Run(cs, order)
    ELSE IF cs.ret.err = ErrOrderNotFound THEN Run(cs, order)
    ELSE limitFill(cs, order, cs.ret.order, fillAmount(order, cs.ret.order))

\* a pass of runLimitMatching after the scan call, of which cs is the result
limitMatchingWith(cs, order) ==
    IF cs.err # Ok THEN Run(cs, order)
    ELSE IF cs.ret.err = ErrOrderNotFound THEN Run(cs, order)
    ELSE IF order.Side = Buy /\ GreaterThan(cs.ret.order.Rate, order.Rate) THEN Run(cs, order)
    ELSE IF order.Side = Sell /\ LessThan(cs.ret.order.Rate, order.Rate) THEN Run(cs, order)
    ELSE limitFill(cs, order, cs.ret.order, fillAmount(order, cs.ret.order))

runLimitMatching(cs, order) ==
    IF cs.err # Ok THEN Run(cs, order)
    ELSE IF ~ValidSide(order.Side) THEN Run(Fail(cs, ErrInvalidSide), order)
    ELSE limitMatchingWith(findMatchOrder(cs, order.Side), order)

\* faulty variant: a Matched aggressor is written back without the finished stamp
persistOrderUnstamped(run) ==
    SetOrderStatusRemainingAndStampMatched(run.cs, run.order.ID,
                                           run.order.Status, run.order.Remaining)

\* the aggressor is written back after its matching run
persistOrder(run) ==
    IF run.order.Status = Matched
    THEN StampOrderFinished(
             SetOrderStatusRemainingAndStampMatched(run.cs, run.order.ID,
                                                    run.order.Status, run.order.Remaining),
             run.order.ID)
    ELSE SetOrderStatusRemainingAndStampMatched(run.cs, run.order.ID,
                                                run.order.Status, run.order.Remaining)

\* matchingLimitOrder after its GetOrder call, of which cs is the result
matchingLoadedLimitOrder(cs) ==
    IF cs.err # Ok THEN cs
    ELSE IF cs.ret.err # Ok THEN Fail(cs, cs.ret.err)
    ELSE IF cs.ret.order.Status # Active THEN cs
    ELSE IF LessThanOrEqual(cs.ret.order.Remaining, Zero) THEN cs
    ELSE persistOrder(runLimitMatching(cs, cs.ret.order))

matchingLimitOrder(cs, orderID) == matchingLoadedLimitOrder(GetOrder(cs, orderID))

\* faulty variant: the market aggressor is not debited for what it receives
marketCreditsWithoutDebit(cs, order, matchOrder, rate, amount, orderFee, matchOrderFee) ==
    walletAdd(walletAdd(cs, order.UserID, getCurrency(matchOrder.Side),
                        Sub(amount, orderFee)),
              matchOrder.UserID, getCurrency(order.Side),
              Mul(Sub(amount, matchOrderFee), rate))

\* faulty variant: the resting order's owner is credited the amount, not the amount at the rate
marketCreditsCounterUnpriced(cs, order, matchOrder, rate, amount, orderFee, matchOrderFee) ==
    walletAdd(walletAdd(walletAdd(cs, order.UserID, getCurrency(matchOrder.Side),
                                  Sub(amount, orderFee)),
                        order.UserID, getCurrency(order.Side), Neg(Mul(amount, rate))),
              matchOrder.UserID, getCurrency(order.Side), Sub(amount, matchOrderFee))

\* ledger calls of one market fill; order and matchOrder are the copies after it
marketCredits(cs, order, matchOrder, rate, amount, orderFee, matchOrderFee) ==
    walletAdd(walletAdd(walletAdd(cs, order.UserID, getCurrency(matchOrder.Side),
                                  Sub(amount, orderFee)),
                        order.UserID, getCurrency(order.Side), Neg(Mul(amount, rate))),
              matchOrder.UserID, getCurrency(order.Side),
              Mul(Sub(amount, matchOrderFee), rate))

settleMarket(cs, order, matchOrder, rate, amount, orderFee, matchOrderFee) ==
    marketCredits(
        InsertHistory(cs, order, matchOrder, Buy, rate, amount, orderFee, matchOrderFee),
        order, matchOrder, rate, amount, orderFee, matchOrderFee)

RECURSIVE runMarketMatching(_, _)

nextMarketMatching(cs, order) ==
    IF cs.err # Ok THEN Run(cs, order)
    ELSE IF order.Status = Active THEN runMarketMatching(cs, order)
    ELSE Run(cs, order)

\* the rest of a market fill after the second GetFee call, of which cs is
\* the result
marketFillSettle(cs, order, matchOrder, rate, amount, orderFee) ==
    nextMarketMatching(
        settleMarket(cs, order, matchOrder, rate, amount, orderFee, cs.ret.value),
        order)

\* the rest of a market fill after the first GetFee call, of which cs is the
\* result
marketFillFees(cs, order, matchOrder, rate, amount) ==
    marketFillSettle(
        GetFee(cs, matchOrder.UserID, matchOrder.Side, matchOrder.Rate, amount),
        order, matchOrder, rate, amount, cs.ret.value)

\* one fill of a market aggressor; order and matchOrder are the copies before it
marketFill(cs, order, matchOrder, amount) ==
    marketFillFees(
        GetFee(persistMatchOrder(cs, fillOrder(matchOrder, amount)),
               order.UserID, order.Side, order.Rate, amount),
        fillOrder(order, amount), fillOrder(matchOrder, amount), matchOrder.Rate, amount)

\* a pass of runMarketMatching after the scan call, of which cs is the result
marketMatchingWith(cs, order) ==
    IF cs.err # Ok THEN Run(cs, order)
    ELSE IF cs.ret.err = ErrOrderNotFound THEN Run(cs, order)
    ELSE marketFill(cs, order, cs.ret.order, fillAmount(order, cs.ret.order))

runMarketMatching(cs, order) ==
    IF cs.err # Ok THEN Run(cs, order)
    ELSE IF ~ValidSide(order.Side) THEN Run(Fail(cs, ErrInvalidSide), order)
    ELSE marketMatchingWith(findMatchOrder(cs, order.Side), order)

\* matchingMarketOrder after its GetOrder call, of which cs is the result
matchingLoadedMarketOrder(cs) ==
    IF cs.err # Ok THEN cs
    ELSE IF cs.ret.err # Ok THEN Fail(cs, cs.ret.err)
    ELSE IF cs.ret.order.Status # Active THEN cs
    ELSE IF LessThanOrEqual(cs.ret.order.Remaining, Zero) THEN cs
    ELSE persistOrder(runMarketMatching(cs, cs.ret.order))

matchingMarketOrder(cs, orderID) == matchingLoadedMarketOrder(GetOrder(cs, orderID))

\* faulty variant: the refund is computed from Value, not from Remaining
cancelRefundOfValue(cs, order) ==
    IF order.Side = Buy
    THEN walletAdd(cs, order.UserID, getCurrency(order.Side), Mul(order.Value, order.Rate))
    ELSE walletAdd(cs, order.UserID, getCurrency(order.Side), order.Value)

\* the refund of CancelOrder; order is the order as loaded.  getCurrency is
\* called before the switch on the side
cancelRefund(cs, order) ==
    IF cs.err # Ok THEN cs
    ELSE IF getCurrency(order.Side) = Unreachable THEN Fail(cs, Unreachable)
    ELSE IF order.Side = Buy
         THEN Add(cs, order.UserID, getCurrency(order.Side), Mul(order.Remaining, order.Rate))
    ELSE IF order.Side = Sell
         THEN Add(cs, order.UserID, getCurrency(order.Side), order.Remaining)
    ELSE Fail(cs, ErrInvalidSide)

\* CancelOrder after its GetOrder call returned order, found Active
cancelActiveOrder(cs, order) ==
    cancelRefund(StampOrderFinished(SetOrderStatus(cs, order.ID, Cancelled), order.ID), order)

\* faulty variant: an unknown id is taken for an order that needs no cancelling
cancelLoadedOrderUnknownIgnored(cs) ==
    IF cs.err # Ok THEN cs
    ELSE IF cs.ret.err # Ok THEN cs
    ELSE IF cs.ret.order.Status # Active THEN cs
    ELSE cancelActiveOrder(cs, cs.ret.order)

\* faulty variant: the status of the loaded order is not looked at
cancelLoadedOrderAnyStatus(cs) ==
    IF cs.err # Ok THEN cs
    ELSE IF cs.ret.err # Ok THEN Fail(cs, cs.ret.err)
    ELSE cancelActiveOrder(cs, cs.ret.order)

\* CancelOrder after its GetOrder call, of which cs is the result
cancelLoadedOrder(cs) ==
    IF cs.err # Ok THEN cs
    ELSE IF cs.ret.err # Ok THEN Fail(cs, cs.ret.err)
    ELSE IF cs.ret.order.Status # Active THEN cs
    ELSE cancelActiveOrder(cs, cs.ret.order)

CancelOrder(cs, orderID) == cancelLoadedOrder(GetOrder(cs, orderID))

\* faulty variant: the escrow of a Buy forgets the rate
escrowWithoutRate(cs, userID, side, rate, value) ==
    IF side = Buy \/ side = Sell
    THEN walletAdd(cs, userID, getCurrency(side), Neg(value))
    ELSE Fail(cs, ErrInvalidSide)

\* faulty variant: a side that is not Buy is escrowed as a Sell of an unnamed currency
escrowSideUnchecked(cs, userID, side, rate, value) ==
    IF side = Buy
    THEN walletAdd(cs, userID, getCurrency(side), Neg(Mul(value, rate)))
    ELSE walletAdd(cs, userID, CurrencySell, Neg(value))

\* the escrow debit of PlaceLimitOrder
escrow(cs, userID, side, rate, value) ==
    IF cs.err # Ok THEN cs
    ELSE IF side = Buy
         THEN walletAdd(cs, userID, getCurrency(side), Neg(Mul(value, rate)))
    ELSE IF side = Sell
         THEN walletAdd(cs, userID, getCurrency(side), Neg(value))
    ELSE Fail(cs, ErrInvalidSide)

NewOrder(userID, type, side, rate, value) ==
    [ZeroOrder EXCEPT !.UserID = userID, !.Type = type, !.Side = side, !.Rate = rate,
                      !.Value = value, !.Remaining = value, !.Status = Active]

\* matching of the order CreateOrder has just returned the id of
matchingCreatedLimitOrder(cs) == matchingLimitOrder(cs, cs.created.ID)

PlaceLimitOrder(cs, userID, side, rate, value) ==
    IF LessThanOrEqual(value, Zero) THEN Fail(cs, ErrInvalidValue)
    ELSE IF LessThanOrEqual(rate, Zero) THEN Fail(cs, ErrInvalidRate)
    ELSE matchingCreatedLimitOrder(
             CreateOrder(escrow(cs, userID, side, rate, value),
                         NewOrder(userID, Limit, side, rate, value)))

\* the market order is cancelled, and the error of the matching returned
cancelAfterFailure(cs, failed) ==
    [CancelOrder([failed EXCEPT !.err = Ok], cs.created.ID) EXCEPT !.err = failed.err]

\* faulty variant: a failed matching is followed by the cancel of the order
matchingCreatedMarketOrderCancelling(cs) ==
    cancelAfterFailure(cs, matchingMarketOrder(cs, cs.created.ID))

matchingCreatedMarketOrder(cs) ==
    CancelOrder(matchingMarketOrder(cs, cs.created.ID), cs.created.ID)

PlaceMarketOrder(cs, userID, side, value) ==
    IF LessThanOrEqual(value, Zero) THEN Fail(cs, ErrInvalidValue)
    ELSE IF ~ValidSide(side) THEN Fail(cs, ErrInvalidSide)
    ELSE matchingCreatedMarketOrder(
             CreateOrder(cs, NewOrder(userID, Market, side, Zero, value)))

--------------------------------------------------------------------------------------------------------------------------------------------
(* TOTP users (totpuser.service over totp.service) *)

ErrInvalidPassword == "totpuser: invalid password"
ErrAlreadyEnabled == "totpuser: already enabled"

Secrets == {"", "S1", "S2"}
Passwords == {"P0", "P1", "P2"}

\* totp.Verify: whether password is the one-time password of secret at the
\* time of the call; every secret, the empty one too, has one
Verify(secret, password) ==
    \/ secret = "" /\ password = "P0"
    \/ secret = "S1" /\ password = "P1"
    \/ secret = "S2" /\ password = "P2"

NoSecrets == [u \in Users |-> ""]

\* the state a totpuser call starts from: the stored secrets, no error, no
\* Repository call made yet, and the Repository call of the method for which
\* the store fails (0 = none); loaded is the secret GetUserOTPSecret returned
OTPBegin(secrets, fault) ==
    [secret |-> secrets, err |-> Ok, enabled |-> FALSE, loaded |-> "",
     calls |-> 0, fault |-> fault]

\* A call of totpuser.Repository: stored is the call state after the call.
\* The call for which the store fails returns an error and writes nothing.
otpRepositoryCall(ts, stored) ==
    IF ts.err # Ok THEN ts
    ELSE IF ts.calls + 1 = ts.fault
         THEN [ts EXCEPT !.calls = @ + 1, !.err = ErrRepository]
    ELSE [stored EXCEPT !.calls = @ + 1]

GetUserOTPSecret(ts, userID) ==
    otpRepositoryCall(ts, [ts EXCEPT !.loaded = ts.secret[userID]])

SetUserOTPSecret(ts, userID, secret) ==
    otpRepositoryCall(ts, [ts EXCEPT !.secret[userID] = secret])

\* after GetUserOTPSecret: false with its error, or whether a secret is stored
isEnabledLoaded(ts) ==
    IF ts.err # Ok THEN [ts EXCEPT !.enabled = FALSE]
    ELSE [ts EXCEPT !.enabled = ts.loaded # ""]

IsEnabled(ts, userID) == isEnabledLoaded(GetUserOTPSecret(ts, userID))

\* after GetUserOTPSecret: its error, or the password checked against the
\* stored secret when there is one
verifyLoadedUser(ts, password) ==
    IF ts.err # Ok THEN ts
    ELSE IF ts.loaded = "" THEN ts
    ELSE IF ~Verify(ts.loaded, password) THEN Fail(ts, ErrInvalidPassword)
    ELSE ts

VerifyUser(ts, userID, password) ==
    verifyLoadedUser(GetUserOTPSecret(ts, userID), password)

\* faulty variant: the password is verified against the stored secret
enableCheckedVerifyingStored(ts, userID, secret, password) ==
    IF ts.err # Ok THEN ts
    ELSE IF ts.enabled THEN Fail(ts, ErrAlreadyEnabled)
    ELSE IF ~Verify(ts.loaded, password) THEN Fail(ts, ErrInvalidPassword)
    ELSE SetUserOTPSecret(ts, userID, secret)

\* faulty variant: the password is verified against the stored secret
EnableVerifyingStored(ts, userID, secret, password) ==
    enableCheckedVerifyingStored(IsEnabled(ts, userID), userID, secret, password)

\* after IsEnabled: its error, or the secret stored for a user that is not
\* enabled when the password verifies against it
enableChecked(ts, userID, secret, password) ==
    IF ts.err # Ok THEN ts
    ELSE IF ts.enabled THEN Fail(ts, ErrAlreadyEnabled)
    ELSE IF ~Verify(secret, password) THEN Fail(ts, ErrInvalidPassword)
    ELSE SetUserOTPSecret(ts, userID, secret)

Enable(ts, userID, secret, password) ==
    enableChecked(IsEnabled(ts, userID), userID, secret, password)

\* after VerifyUser: its error, or the secret cleared
Disable(ts, userID, password) ==
    SetUserOTPSecret(VerifyUser(ts, userID, password), userID, "")

Set(ts, userID, secret) == SetUserOTPSecret(ts, userID, secret)

Remove(ts, userID) == SetUserOTPSecret(ts, userID, "")

\* a totpuser call, its arguments, the Repository call of it for which the
\* store failed (0 = none) and what it returned; only IsEnabled returns a flag
OTPResult(op, userID, secret, password, ts) ==
    [op |-> op, user |-> userID, secret |-> secret, password |-> password,
     fault |-> ts.fault, err |-> ts.err,
     enabled |-> op = "IsEnabled" /\ ts.enabled]

----------------------------------------------------------------------------
(* The state machine: one action per public operation *)

\* the stores after exchange.New / wallet.New on empty repositories
Empty ==
    [orders |-> <<>>, bal |-> [u \in Users |-> [c \in Currencies |-> Zero]], now |-> 0,
     hist |-> <<>>, txs |-> <<>>, err |-> Ok, created |-> ZeroOrder,
     calls |-> 0, fault |-> 0, log |-> <<>>, budget |-> Whole, ret |-> NoReturn]

\* the call state a public operation starts from
Begin ==
    [orders |-> orders, bal |-> bal, now |-> now, hist |-> <<>>, txs |-> <<>>,
     err |-> Ok, created |-> ZeroOrder, calls |-> 0, fault |-> 0,
     log |-> <<>>, budget |-> Whole, ret |-> NoReturn]

\* the same, over a store whose fault-th call of the operation fails
BeginFaulty(fault) == [Begin EXCEPT !.fault = fault]

\* the call state of a suspended handler that goes on by one Repository call
BeginResumed(log) == [Begin EXCEPT !.log = log, !.budget = 1]

Result(op, userID, dst, side, rate, value, id, currency, cs) ==
    [op |-> op, user |-> userID, dst |-> dst, side |-> side, rate |-> rate,
     value |-> value, id |-> id, currency |-> currency, err |-> cs.err,
     created |-> cs.created, fault |-> cs.fault]

\* the stores after the step, and what the operation was and returned
Stored(op, userID, dst, side, rate, value, id, currency, cs) ==
    /\ orders' = cs.orders
    /\ bal' = cs.bal
    /\ now' = cs.now
    /\ hist' = cs.hist
    /\ txs' = cs.txs
    /\ last' = Result(op, userID, dst, side, rate, value,
                      IF op = "CancelOrder" THEN id ELSE IF cs.err = Ok THEN cs.created.ID ELSE 0,
                      currency, cs)
    /\ UNCHANGED <<otpSecret, otpLast>>

\* the repositories, as the calls in progress found them
Stores(o, b, n) == [orders |-> o, bal |-> b, now |-> n]

\* no call of the exchange is in progress.  start and between are the
\* stores at the start of the first of the calls that overlap and the
\* requests of these calls, in the order they started
NoPending ==
    [calls |-> <<>>, start |-> Stores(<<>>, Empty.bal, 0), between |-> <<>>]

\* an operation that runs from its first call to its return with no other
\* operation in between
Commit(op, userID, dst, side, rate, value, id, currency, cs) ==
    /\ Stored(op, userID, dst, side, rate, value, id, currency, cs)
    /\ pending' = pending

New ==
    /\ orders = Empty.orders
    /\ bal = Empty.bal
    /\ now = 0
    /\ last = Result("New", "", "", "", Zero, Zero, 0, "", Empty)
    /\ hist = <<>>
    /\ txs = <<>>
    /\ nWallet = 0
    /\ pending = NoPending
    /\ otpSecret = NoSecrets
    /\ otpLast = OTPResult("New", "", "", "", OTPBegin(NoSecrets, 0))

PlaceLimitOrderStep(maxOrders) ==
    \E req \in LimitRequests :
        /\ Len(orders) < maxOrders
        /\ Commit("PlaceLimitOrder", req[1], "", req[2], req[3], req[4], 0, "",
                  PlaceLimitOrder(Begin, req[1], req[2], req[3], req[4]))
        /\ UNCHANGED nWallet

PlaceMarketOrderStep(maxOrders) ==
    \E req \in MarketRequests :
        /\ Len(orders) < maxOrders
        /\ Commit("PlaceMarketOrder", req[1], "", req[2], Zero, req[3], 0, "",
                  PlaceMarketOrder(Begin, req[1], req[2], req[3]))
        /\ UNCHANGED nWallet

CancelOrderStep(maxOrders) ==
    \E orderID \in 1..maxOrders :
        /\ Commit("CancelOrder", "", "", "", Zero, Zero, orderID, "",
                  CancelOrder(Begin, orderID))
        /\ UNCHANGED nWallet

DoAdd ==
    \E userID \in Users, currency \in Currencies, value \in Deltas :
        /\ nWallet < MaxWalletOps
        /\ Commit("Add", userID, "", "", Zero, value, 0, currency,
                  Add(Begin, userID, currency, value))
        /\ nWallet' = nWallet + 1

DoTransfer ==
    \E src \in Users, dst \in Users, currency \in Currencies, value \in Deltas :
        /\ nWallet < MaxWalletOps
        /\ Commit("Transfer", src, dst, "", Zero, value, 0, currency,
                  Transfer(Begin, src, dst, currency, value))
        /\ nWallet' = nWallet + 1

(* The exchange on the wallets the tests preload:                          *)
(* add(t, w, "1", "A", "10000"); add(t, w, "2", "B", "10000")              *)

Preload ==
    Add(Add(Empty, "1", CurrencyBuy, D(10000)), "2", CurrencySell, D(10000))

Init ==
    /\ orders = Preload.orders
    /\ bal = Preload.bal
    /\ now = 0
    /\ last = Result("New", "", "", "", Zero, Zero, 0, "", Empty)
    /\ hist = <<>>
    /\ txs = <<>>
    /\ nWallet = 0
    /\ pending = NoPending
    /\ otpSecret = NoSecrets
    /\ otpLast = OTPResult("New", "", "", "", OTPBegin(NoSecrets, 0))

DoPlaceLimitOrder == PlaceLimitOrderStep(MaxOrders)

DoPlaceMarketOrder == PlaceMarketOrderStep(MaxOrders)

DoCancelOrder == CancelOrderStep(MaxOrders)

Next ==
    \/ DoPlaceLimitOrder
    \/ DoPlaceMarketOrder
    \/ DoCancelOrder

Spec == Init /\ [][Next]_vars

(* The wallet and the exchange from construction, with direct wallet calls *)

LedgerPlaceLimitOrder == PlaceLimitOrderStep(MaxLedgerOrders)

LedgerPlaceMarketOrder == PlaceMarketOrderStep(MaxLedgerOrders)

LedgerCancelOrder == CancelOrderStep(MaxLedgerOrders)

NextLedger ==
    \/ LedgerPlaceLimitOrder
    \/ LedgerPlaceMarketOrder
    \/ LedgerCancelOrder
    \/ DoAdd
    \/ DoTransfer

SpecLedger == New /\ [][NextLedger]_vars

(* The wallet over a store of which one call per operation may fail *)

FaultyAdd ==
    \E userID \in Users, currency \in Currencies, value \in Deltas, fault \in 0..MaxFaultAt :
        /\ nWallet < MaxWalletOps
        /\ Commit("Add", userID, "", "", Zero, value, 0, currency,
                  Add(BeginFaulty(fault), userID, currency, value))
        /\ nWallet' = nWallet + 1

FaultyTransfer ==
    \E src \in Users, dst \in Users, currency \in Currencies, value \in Deltas,
       fault \in 0..MaxFaultAt :
        /\ nWallet < MaxWalletOps
        /\ Commit("Transfer", src, dst, "", Zero, value, 0, currency,
                  Transfer(BeginFaulty(fault), src, dst, currency, value))
        /\ nWallet' = nWallet + 1

NextFault ==
    \/ FaultyAdd
    \/ FaultyTransfer

SpecFault == New /\ [][NextFault]_vars

(* The exchange with calls in progress at the same time.  A call starts,   *)
(* then goes on step by step; a step takes it to the return of its next    *)
(* Repository call and on to the call after, where it waits, or to its     *)
(* return.  Between two steps of a call the other call in progress may     *)
(* take any number of steps.                                               *)

Request(op, userID, side, rate, value, id) ==
    [op |-> op, user |-> userID, side |-> side, rate |-> rate, value |-> value, id |-> id]

\* a call in progress: its request, and what its Repository calls returned
InFlight(req) == [req |-> req, log |-> <<>>]

\* the placements in progress that have not made their CreateOrder call
RECURSIVE ToCreate(_)
ToCreate(calls) ==
    IF calls = <<>> THEN 0
    ELSE (IF /\ Head(calls).req.op # "CancelOrder"
             /\ \A k \in 1..Len(Head(calls).log) : Head(calls).log[k].created.ID = 0
          THEN 1 ELSE 0)
         + ToCreate(Tail(calls))

\* the handler of a request
Handler(cs, req) ==
    IF req.op = "PlaceLimitOrder"
    THEN PlaceLimitOrder(cs, req.user, req.side, req.rate, req.value)
    ELSE IF req.op = "PlaceMarketOrder"
    THEN PlaceMarketOrder(cs, req.user, req.side, req.value)
    ELSE CancelOrder(cs, req.id)

\* a call starts: it has made no Repository call yet
Started(req) ==
    /\ Len(pending.calls) < MaxInFlight
    /\ pending.calls # <<>> => Len(pending.between) < MaxInFlight
    /\ pending' = IF pending.calls = <<>>
                  THEN [calls |-> <<InFlight(req)>>, start |-> Stores(orders, bal, now),
                        between |-> <<req>>]
                  ELSE [pending EXCEPT !.calls = Append(@, InFlight(req)),
                                       !.between = Append(@, req)]
    /\ UNCHANGED <<orders, bal, now, last, hist, txs, nWallet, otpSecret, otpLast>>

\* the calls in progress without the i-th
Without(calls, i) == SubSeq(calls, 1, i - 1) \o SubSeq(calls, i + 1, Len(calls))

\* the i-th call in progress has gone on to cs: it waits at its next
\* Repository call, or it has returned
Resumed(i, req, cs) ==
    /\ Stored(req.op, req.user, "", req.side, req.rate, req.value, req.id, "", cs)
    /\ pending' = IF cs.err = Suspended
                  THEN [pending EXCEPT !.calls[i].log = cs.log]
                  ELSE [pending EXCEPT !.calls = Without(@, i)]
    /\ UNCHANGED nWallet

Resume(op) ==
    \E i \in 1..Len(pending.calls) :
        /\ pending.calls[i].req.op = op
        /\ Resumed(i, pending.calls[i].req,
                   Handler(BeginResumed(pending.calls[i].log), pending.calls[i].req))

ConcurrentLimitRequests ==
    (Users \X Sides \X {D(2)} \X {D(50)}) \cup {<<"1", Buy, D(2), D(0)>>}

ConcurrentMarketRequests == Users \X Sides \X {D(50)}

ConcurrentPlaceLimitOrder ==
    \E req \in ConcurrentLimitRequests :
        /\ Len(orders) + ToCreate(pending.calls) < MaxConcurrentOrders
        /\ Started(Request("PlaceLimitOrder", req[1], req[2], req[3], req[4], 0))

ConcurrentPlaceMarketOrder ==
    \E req \in ConcurrentMarketRequests :
        /\ Len(orders) + ToCreate(pending.calls) < MaxConcurrentOrders
        /\ Started(Request("PlaceMarketOrder", req[1], req[2], Zero, req[3], 0))

ConcurrentCancelOrder ==
    \E orderID \in 1..MaxConcurrentOrders :
        /\ Len(pending.calls) < MaxInFlight
        /\ Started(Request("CancelOrder", "", "", Zero, Zero, orderID))

ResumePlaceLimitOrder ==
    /\ pending.calls # <<>>
    /\ Resume("PlaceLimitOrder")

ResumePlaceMarketOrder ==
    /\ pending.calls # <<>>
    /\ Resume("PlaceMarketOrder")

ResumeCancelOrder ==
    /\ pending.calls # <<>>
    /\ Resume("CancelOrder")

NextConcurrent ==
    \/ ConcurrentPlaceLimitOrder
    \/ ConcurrentPlaceMarketOrder
    \/ ConcurrentCancelOrder
    \/ ResumePlaceLimitOrder
    \/ ResumePlaceMarketOrder
    \/ ResumeCancelOrder

SpecConcurrent == Init /\ [][NextConcurrent]_vars

(* The TOTP users *)

\* the secret store after the call, and what the call was and returned
OTPStored(op, userID, secret, password, ts) ==
    /\ otpSecret' = ts.secret
    /\ otpLast' = OTPResult(op, userID, secret, password, ts)
    /\ UNCHANGED <<orders, bal, now, last, hist, txs, nWallet, pending>>

\* the Repository call of a method for which the store fails: none, or one
\* of the calls the method can make
OTPFaults == 0..MaxOTPFaultAt

DoVerifyUser ==
    \E userID \in Users, password \in Passwords, fault \in OTPFaults :
        OTPStored("VerifyUser", userID, "", password,
                  VerifyUser(OTPBegin(otpSecret, fault), userID, password))

DoEnable ==
    \E userID \in Users, secret \in Secrets, password \in Passwords, fault \in OTPFaults :
        OTPStored("Enable", userID, secret, password,
                  Enable(OTPBegin(otpSecret, fault), userID, secret, password))

DoDisable ==
    \E userID \in Users, password \in Passwords, fault \in OTPFaults :
        OTPStored("Disable", userID, "", password,
                  Disable(OTPBegin(otpSecret, fault), userID, password))

DoSet ==
    \E userID \in Users, secret \in Secrets, fault \in OTPFaults :
        OTPStored("Set", userID, secret, "",
                  Set(OTPBegin(otpSecret, fault), userID, secret))

DoRemove ==
    \E userID \in Users, fault \in OTPFaults :
        OTPStored("Remove", userID, "", "", Remove(OTPBegin(otpSecret, fault), userID))

DoIsEnabled ==
    \E userID \in Users, fault \in OTPFaults :
        OTPStored("IsEnabled", userID, "", "",
                  IsEnabled(OTPBegin(otpSecret, fault), userID))

NextTOTP ==
    \/ DoVerifyUser
    \/ DoEnable
    \/ DoDisable
    \/ DoSet
    \/ DoRemove
    \/ DoIsEnabled

SpecTOTP == New /\ [][NextTOTP]_vars

(* The exchange on the preloaded wallets with a book of two resting orders *)

BookPlaceLimitOrder == PlaceLimitOrderStep(MaxBookOrders)

BookPlaceMarketOrder == PlaceMarketOrderStep(MaxBookOrders)

BookCancelOrder == CancelOrderStep(MaxBookOrders)

NextBook ==
    \/ BookPlaceLimitOrder
    \/ BookPlaceMarketOrder
    \/ BookCancelOrder

SpecBook == Init /\ [][NextBook]_vars

(* The exchange on the preloaded wallets, over stores of which one call    *)
(* made during the matching of a placement may fail: a call of the         *)
(* exchange Repository, or a call the wallet makes to its own Repository   *)

\* the Repository call of a placement for which the store fails (0 = none)
MatchingFaults == 0..MaxMatchingFaultAt

\* user 1 sells 50 at either rate and user 2 buys 100 at either rate
MatchingLimitRequests ==
    ({"1"} \X {Sell} \X Rates \X {D(50)}) \cup ({"2"} \X {Buy} \X Rates \X {D(100)})

MatchingMarketRequests == {<<"1", Sell, D(50)>>, <<"2", Buy, D(50)>>}

\* the placement ran over a store that answers every call, or over one that
\* failed a call the placement made after it had created its order
FailedInMatching(fault, cs) ==
    fault # 0 => cs.err = ErrRepository /\ Len(cs.orders) = Len(orders) + 1

FaultyPlaceLimitOrder ==
    \E req \in MatchingLimitRequests, fault \in MatchingFaults :
        /\ Len(orders) < MaxMatchingOrders
        /\ FailedInMatching(fault, PlaceLimitOrder(BeginFaulty(fault), req[1], req[2], req[3], req[4]))
        /\ Commit("PlaceLimitOrder", req[1], "", req[2], req[3], req[4], 0, "",
                  PlaceLimitOrder(BeginFaulty(fault), req[1], req[2], req[3], req[4]))
        /\ UNCHANGED nWallet

FaultyPlaceMarketOrder ==
    \E req \in MatchingMarketRequests, fault \in MatchingFaults :
        /\ Len(orders) < MaxMatchingOrders
        /\ FailedInMatching(fault, PlaceMarketOrder(BeginFaulty(fault), req[1], req[2], req[3]))
        /\ Commit("PlaceMarketOrder", req[1], "", req[2], Zero, req[3], 0, "",
                  PlaceMarketOrder(BeginFaulty(fault), req[1], req[2], req[3]))
        /\ UNCHANGED nWallet

NextMatchingFault ==
    \/ FaultyPlaceLimitOrder
    \/ FaultyPlaceMarketOrder

SpecMatchingFault == Init /\ [][NextMatchingFault]_vars

----------------------------------------------------------------------------
(* Properties *)

\* sum of the journal entries s[from..to] written for (userID, currency)
RECURSIVE SumTx(_, _, _, _, _)
SumTx(s, from, to, userID, currency) ==
    IF from > to THEN Zero
    ELSE DecimalAdd(IF s[from].user = userID /\ s[from].currency = currency
                    THEN s[from].value ELSE Zero,
                    SumTx(s, from + 1, to, userID, currency))

\* the step moved every balance by the journal entries of the operation
LedgerFollowsJournal ==
    \A u \in Users, c \in Currencies :
        bal'[u][c] = DecimalAdd(bal[u][c], SumTx(txs', 1, Len(txs'), u, c))

\* the escrow of a limit order and the currency it is taken in
EscrowOf(side, rate, value) == IF side = Buy THEN Mul(value, rate) ELSE value

\* an Active limit order of the other side that a limit order (side, rate) crosses
Crosses(o, side, rate) ==
    /\ o.Type = Limit
    /\ o.Status = Active
    /\ o.Side # side
    /\ IF side = Buy THEN LessThanOrEqual(o.Rate, rate) ELSE LessThanOrEqual(rate, o.Rate)

PlacedLimit == last'.op = "PlaceLimitOrder" /\ last'.err = Ok

\* C1: a successful PlaceLimitOrder first debits the owner by value*rate of
\* the buy currency (Buy) or by value of the sell currency (Sell) and creates
\* the order Active with remaining = value; when the book holds no crossing
\* counter order, that debit and the new order are the only changes to
\* balances and orders.
C1_EscrowAndPersist ==
    [][PlacedLimit =>
        /\ Len(txs') >= 1
        /\ txs'[1] = Tx(last'.user, getCurrency(last'.side),
                        Neg(EscrowOf(last'.side, last'.rate, last'.value)))
        /\ Len(orders') = Len(orders) + 1
        /\ last'.id = Len(orders')
        /\ last'.created.Status = Active
        /\ last'.created.Remaining = last'.value
        /\ (~\E i \in 1..Len(orders) : Crosses(orders[i], last'.side, last'.rate)) =>
            /\ bal' = [bal EXCEPT ![last'.user][getCurrency(last'.side)] =
                           Sub(@, EscrowOf(last'.side, last'.rate, last'.value))]
            /\ SubSeq(orders', 1, Len(orders)) = orders
            /\ orders'[last'.id].UserID = last'.user
            /\ orders'[last'.id].Type = Limit
            /\ orders'[last'.id].Side = last'.side
            /\ orders'[last'.id].Rate = last'.rate
            /\ orders'[last'.id].Value = last'.value
            /\ orders'[last'.id].Remaining = last'.value
            /\ orders'[last'.id].Status = Active
            /\ hist' = <<>>
    ]_vars

\* a limit Buy was placed and rests beside an Active limit Sell it does not cross
C1_Witness ==
    /\ last.op = "PlaceLimitOrder"
    /\ last.err = Ok
    /\ last.side = Buy
    /\ Len(orders) = 2
    /\ orders[1].Status = Active
    /\ orders[1].Side = Sell
    /\ GreaterThan(orders[1].Rate, last.rate)
    /\ orders[2].Status = Active
    /\ orders[2].Remaining = last.value
    /\ txs = <<Tx(last.user, CurrencyBuy, Neg(Mul(last.value, last.rate)))>>

\* the fee the reference GetFee returns for a fill of amount
FeeOf(userID, side, rate, amount) == Mul(amount, FeeFactor)

\* the two settlement credits of a fill of a limit aggressor, as the ledger
\* calls that follow the fill's history entry
FillCredited(f) ==
    /\ f.rate = f.dst.Rate
    /\ Len(txs) >= f.at + 2
    /\ IF f.src.Side = Buy
       THEN /\ txs[f.at + 1] =
                   Tx(f.src.UserID, CurrencySell,
                      Sub(f.amount, FeeOf(f.src.UserID, f.src.Side, f.src.Rate, f.amount)))
            /\ txs[f.at + 2] =
                   Tx(f.dst.UserID, CurrencyBuy,
                      Mul(Sub(f.amount,
                              FeeOf(f.dst.UserID, f.dst.Side, f.dst.Rate, f.amount)),
                          f.rate))
       ELSE /\ txs[f.at + 1] =
                   Tx(f.src.UserID, CurrencyBuy,
                      Mul(Sub(f.amount,
                              FeeOf(f.src.UserID, f.src.Side, f.src.Rate, f.amount)),
                          f.rate))
            /\ txs[f.at + 2] =
                   Tx(f.dst.UserID, CurrencySell,
                      Sub(f.amount, FeeOf(f.dst.UserID, f.dst.Side, f.dst.Rate, f.amount)))

\* the book holds exactly a limit Buy of user b and a limit Sell of user s,
\* both of value 50 at rate 2 and both Matched: one full fill of 50 at rate 2
FullFillOf50At2(b, s) ==
    /\ Len(orders) = 2
    /\ \E i, j \in 1..2 :
        /\ i # j
        /\ orders[i].Side = Buy /\ orders[i].UserID = b
        /\ orders[j].Side = Sell /\ orders[j].UserID = s
    /\ \A i \in 1..2 :
        /\ orders[i].Type = Limit
        /\ orders[i].Rate = D(2)
        /\ orders[i].Value = D(50)
        /\ orders[i].Status = Matched

\* 49.875 and 99.75
Dec49875 == Decimal(49875, -3)
Dec9975 == Decimal(9975, -2)

\* C2: every fill of a limit aggressor O against M executes at M.rate and
\* credits O's owner amount - fee_O of the sell currency and M's owner
\* (amount - fee_M)*r of the buy currency when O is a Buy, and O's owner
\* (amount - fee_O)*r of the buy currency and M's owner amount - fee_M of the
\* sell currency when O is a Sell; the balances move by these ledger calls.
\* A full fill of 50 at rate 2 leaves the buyer with -100 A, +49.875 B and
\* the seller with -50 B, +99.75 A, whichever side rested.
C2_FillCredits ==
    /\ [][last'.op = "PlaceLimitOrder" => LedgerFollowsJournal]_vars
    /\ [](last.op = "PlaceLimitOrder" => \A k \in 1..Len(hist) : FillCredited(hist[k]))
    /\ [](\A b, s \in Users :
            (b # s /\ FullFillOf50At2(b, s)) =>
                /\ bal[b][CurrencyBuy] = Sub(Preload.bal[b][CurrencyBuy], D(100))
                /\ bal[b][CurrencySell] = DecimalAdd(Preload.bal[b][CurrencySell], Dec49875)
                /\ bal[s][CurrencySell] = Sub(Preload.bal[s][CurrencySell], D(50))
                /\ bal[s][CurrencyBuy] = DecimalAdd(Preload.bal[s][CurrencyBuy], Dec9975))

\* a limit Sell of 50 at rate 2 has just filled a resting limit Buy of 50 at rate 2
C2_Witness ==
    /\ last.op = "PlaceLimitOrder"
    /\ last.err = Ok
    /\ last.side = Sell
    /\ Len(hist) = 1
    /\ hist[1].amount = D(50)
    /\ hist[1].rate = D(2)
    /\ FullFillOf50At2("1", "2")
    /\ txs = <<Tx("2", CurrencySell, D(-50)), Tx("2", CurrencyBuy, Dec9975),
               Tx("1", CurrencySell, Dec49875)>>

\* sum of the journal entries s[from..to] written in a currency, for any user
RECURSIVE SumCurrency(_, _, _, _)
SumCurrency(s, from, to, currency) ==
    IF from > to THEN Zero
    ELSE DecimalAdd(IF s[from].currency = currency THEN s[from].value ELSE Zero,
                    SumCurrency(s, from + 1, to, currency))

Placed == last.op \in {"PlaceLimitOrder", "PlaceMarketOrder"} /\ last.err = Ok

\* the refund CancelOrder pays at the end of a PlaceMarketOrder is a ledger
\* call of the operation that belongs to no fill
ResidualRefunds ==
    IF /\ last.op = "PlaceMarketOrder"
       /\ orders[last.id].Status = Cancelled
       /\ orders[last.id].Side = Sell
    THEN 1 ELSE 0

\* the ledger calls of the k-th fill of the operation are txs[FillFrom(k)..FillTo(k)]
FillFrom(k) == hist[k].at + 1
FillTo(k) == IF k < Len(hist) THEN hist[k + 1].at ELSE Len(txs) - ResidualRefunds

Buyer(f) == IF f.src.Side = Buy THEN f.src ELSE f.dst
Seller(f) == IF f.src.Side = Buy THEN f.dst ELSE f.src
FeeBuyer(f) == FeeOf(Buyer(f).UserID, Buyer(f).Side, Buyer(f).Rate, f.amount)
FeeSeller(f) == FeeOf(Seller(f).UserID, Seller(f).Side, Seller(f).Rate, f.amount)

\* the part of the escrow taken at placement that the fill consumes
EscrowedBuy(f) == IF Buyer(f).Type = Limit THEN Mul(f.amount, Buyer(f).Rate) ELSE Zero
EscrowedSell(f) == IF Seller(f).Type = Limit THEN f.amount ELSE Zero

\* the two users' ledger deltas of the k-th fill, summed, per currency
DeltaBuyCurrency(k) ==
    Sub(SumCurrency(txs, FillFrom(k), FillTo(k), CurrencyBuy), EscrowedBuy(hist[k]))
DeltaSellCurrency(k) ==
    Sub(SumCurrency(txs, FillFrom(k), FillTo(k), CurrencySell), EscrowedSell(hist[k]))

MarketSellFill(f) == f.src.Type = Market /\ f.src.Side = Sell

\* C3 as stated: for every completed fill the two users' ledger deltas,
\* escrow included, sum to -fee_buyer in the sell currency and to -fee_seller
\* in the buy currency, a leak of -fee_B*r - fee_S in the buy currency.
C3_Original ==
    Placed =>
        \A k \in 1..Len(hist) :
            /\ DeltaSellCurrency(k) = Neg(FeeBuyer(hist[k]))
            /\ DeltaBuyCurrency(k) = Neg(FeeSeller(hist[k]))
            /\ DecimalAdd(DeltaBuyCurrency(k), Mul(DeltaSellCurrency(k), hist[k].rate)) =
                   Sub(Neg(Mul(FeeBuyer(hist[k]), hist[k].rate)), FeeSeller(hist[k]))

\* C3 amended: for every completed fill of a limit aggressor or of a Market
\* Buy the two users' ledger deltas, escrow included, sum to -fee_buyer in
\* the sell currency and to -fee_seller*r in the buy currency, a leak of
\* -(fee_B + fee_S)*r in the buy currency; a fill of a Market Sell is settled
\* with the Market Buy formulas and sums to -fee_buyer*r in the sell
\* currency and to x - fee_seller - x*r in the buy currency.  The balances
\* move by these ledger calls.
C3_Conservation ==
    /\ [][last'.op \in {"PlaceLimitOrder", "PlaceMarketOrder"} => LedgerFollowsJournal]_vars
    /\ [](Placed =>
            \A k \in 1..Len(hist) :
                IF MarketSellFill(hist[k])
                THEN /\ DeltaSellCurrency(k) = Neg(Mul(FeeBuyer(hist[k]), hist[k].rate))
                     /\ DeltaBuyCurrency(k) =
                            Sub(Sub(hist[k].amount, FeeSeller(hist[k])),
                                Mul(hist[k].amount, hist[k].rate))
                ELSE /\ DeltaSellCurrency(k) = Neg(FeeBuyer(hist[k]))
                     /\ DeltaBuyCurrency(k) = Neg(Mul(FeeSeller(hist[k]), hist[k].rate))
                     /\ DecimalAdd(DeltaBuyCurrency(k),
                                   Mul(DeltaSellCurrency(k), hist[k].rate)) =
                            Neg(Mul(DecimalAdd(FeeBuyer(hist[k]), FeeSeller(hist[k])),
                                    hist[k].rate)))

\* a Market Buy has just been filled against a resting limit Sell at rate 3
C3_Witness ==
    /\ last.op = "PlaceMarketOrder"
    /\ last.err = Ok
    /\ last.side = Buy
    /\ Len(hist) = 1
    /\ hist[1].rate = D(3)
    /\ hist[1].dst.Type = Limit
    /\ GreaterThan(hist[1].amount, Zero)

\* C4 as stated: PlaceLimitOrder of a user whose balance in the escrow
\* currency is smaller than the escrow fails with ErrBalanceNotEnough,
\* creates no order and leaves the balances unchanged.
C4_InsufficientBalance ==
    [][(/\ last'.op = "PlaceLimitOrder"
        /\ GreaterThan(last'.value, Zero)
        /\ GreaterThan(last'.rate, Zero)
        /\ ValidSide(last'.side)
        /\ LessThan(bal[last'.user][getCurrency(last'.side)],
                    EscrowOf(last'.side, last'.rate, last'.value)))
       => (/\ last'.err = ErrBalanceNotEnough
           /\ orders' = orders
           /\ bal' = bal)
    ]_vars

\* C5 as stated: starting from non-negative balances, every balance stays
\* >= 0 after any sequence of wallet and exchange calls.
C5_NoShorting == \A u \in Users, c \in Currencies : LessThanOrEqual(Zero, bal[u][c])

\* CancelOrder(i) is the step, and i was an Active limit order before it
CancelsActiveLimit(i) ==
    /\ last'.op = "CancelOrder"
    /\ last'.id = i
    /\ orders[i].Status = Active
    /\ orders[i].Type = Limit

\* C6: CancelOrder on an Active limit order returns success, sets the status
\* to Cancelled, stamps finished_at, leaves remaining and every other order
\* unchanged, and credits the owner remaining*rate of the buy currency (Buy)
\* or remaining of the sell currency (Sell); no other balance changes.
C6_CancelRefund ==
    [][\A i \in 1..Len(orders) :
        CancelsActiveLimit(i) =>
            /\ last'.err = Ok
            /\ orders[i].FinishedAt = 0
            /\ orders'[i].FinishedAt # 0
            /\ orders' = [orders EXCEPT ![i].Status = Cancelled,
                                        ![i].FinishedAt = orders'[i].FinishedAt]
            /\ bal' = [bal EXCEPT ![orders[i].UserID][getCurrency(orders[i].Side)] =
                           DecimalAdd(@, EscrowOf(orders[i].Side, orders[i].Rate,
                                                  orders[i].Remaining))]
    ]_vars

\* a partly filled limit Buy has just been cancelled and its residual refunded
C6_Witness ==
    /\ last.op = "CancelOrder"
    /\ last.err = Ok
    /\ last.id \in 1..Len(orders)
    /\ orders[last.id].Type = Limit
    /\ orders[last.id].Side = Buy
    /\ orders[last.id].Status = Cancelled
    /\ GreaterThan(orders[last.id].Remaining, Zero)
    /\ LessThan(orders[last.id].Remaining, orders[last.id].Value)
    /\ txs = <<Tx(orders[last.id].UserID, CurrencyBuy,
                  Mul(orders[last.id].Remaining, orders[last.id].Rate))>>

\* C7: CancelOrder on a Matched or Cancelled order returns success and
\* changes no order, no balance and writes no journal entry.
C7_CancelIdempotent ==
    [][\A i \in 1..Len(orders) :
        (/\ last'.op = "CancelOrder"
         /\ last'.id = i
         /\ orders[i].Status \in {Matched, Cancelled})
        => (/\ last'.err = Ok
            /\ orders' = orders
            /\ bal' = bal
            /\ txs' = <<>>
            /\ hist' = <<>>)
    ]_vars

\* a Cancelled limit order has just been cancelled again: no refund was paid
C7_Witness ==
    /\ last.op = "CancelOrder"
    /\ last.err = Ok
    /\ last.id \in 1..Len(orders)
    /\ orders[last.id].Type = Limit
    /\ orders[last.id].Status = Cancelled
    /\ GreaterThan(orders[last.id].Remaining, Zero)
    /\ txs = <<>>

ExchangeOps == {"PlaceLimitOrder", "PlaceMarketOrder", "CancelOrder"}

Completed == last.op \in ExchangeOps /\ last.err = Ok

\* C8: after every successfully completed public operation every persisted
\* order has 0 <= remaining <= value, remaining = 0 when Matched and
\* remaining > 0 when Active.
C8_RemainingInvariant ==
    Completed =>
        \A i \in 1..Len(orders) :
            /\ LessThanOrEqual(Zero, orders[i].Remaining)
            /\ LessThanOrEqual(orders[i].Remaining, orders[i].Value)
            /\ orders[i].Status = Matched => orders[i].Remaining = Zero
            /\ orders[i].Status = Active => GreaterThan(orders[i].Remaining, Zero)

\* a placement has matched a resting order and rests itself, partly filled
C8_Witness ==
    /\ Completed
    /\ Len(hist) = 1
    /\ Len(orders) = 2
    /\ orders[1].Status = Matched
    /\ orders[1].Remaining = Zero
    /\ orders[2].Status = Active
    /\ GreaterThan(orders[2].Remaining, Zero)
    /\ LessThan(orders[2].Remaining, orders[2].Value)

\* C9: after every successfully completed public operation finished_at is
\* set exactly for the Matched and the Cancelled orders; finished_at is
\* stamped at most once per order, in the step in which the order's status
\* leaves Active.
C9_FinishedStamp ==
    /\ [](Completed =>
            \A i \in 1..Len(orders) :
                orders[i].FinishedAt # 0 <=> orders[i].Status \in {Matched, Cancelled})
    /\ [][\A i \in 1..Len(orders') :
            /\ orders'[i].FinishedAt <= 1
            /\ i <= Len(orders) =>
                (orders'[i].FinishedAt # orders[i].FinishedAt =>
                    /\ orders[i].Status = Active
                    /\ orders'[i].Status # Active)
            /\ i > Len(orders) =>
                (orders'[i].FinishedAt # 0 => orders'[i].Status # Active)
       ]_vars

\* a Market order has matched a resting order and was cancelled for its residual
C9_Witness ==
    /\ Completed
    /\ Len(orders) = 2
    /\ orders[1].Status = Matched
    /\ orders[1].FinishedAt = 1
    /\ orders[2].Status = Cancelled
    /\ orders[2].FinishedAt = 1

\* order i takes part in a fill of the step
FilledInStep(i) == \E k \in 1..Len(hist') : hist'[k].src.ID = i \/ hist'[k].dst.ID = i

\* C10: every order is created Active; a status changes only from Active to
\* Matched, exactly when a fill of the step brings the remaining to 0, or
\* from Active to Cancelled; the status and the remaining of a Matched or
\* Cancelled order never change.
C10_Lifecycle ==
    [][\A i \in 1..Len(orders') :
        /\ i <= Len(orders) =>
            /\ orders'[i].Status # orders[i].Status =>
                /\ orders[i].Status = Active
                /\ orders'[i].Status \in {Matched, Cancelled}
            /\ (orders[i].Status = Active /\ orders'[i].Status = Matched)
                   <=> (/\ orders[i].Status = Active
                        /\ FilledInStep(i)
                        /\ orders'[i].Remaining = Zero)
            /\ orders[i].Status \in {Matched, Cancelled} =>
                /\ orders'[i].Status = orders[i].Status
                /\ orders'[i].Remaining = orders[i].Remaining
        /\ i > Len(orders) =>
            /\ last'.created.ID = i
            /\ last'.created.Status = Active
            /\ orders'[i].Status = Matched
                   <=> (FilledInStep(i) /\ orders'[i].Remaining = Zero)
            /\ orders'[i].Status = Cancelled => last'.op = "PlaceMarketOrder"
    ]_vars

\* a limit placement has just turned the resting order Matched and rests
\* itself, still Active
C10_Witness ==
    /\ last.op = "PlaceLimitOrder"
    /\ last.err = Ok
    /\ Len(orders) = 2
    /\ Len(hist) = 1
    /\ hist[1].dst.ID = 1
    /\ orders[1].Status = Matched
    /\ orders[2].Status = Active

\* the resting orders a matching run may choose from: Active Limit orders of a side
Book(side) ==
    {i \in 1..Len(orders) :
        orders[i].Type = Limit /\ orders[i].Status = Active /\ orders[i].Side = side}

\* a has priority over b among the resting orders of a side
HasPriority(a, b, side) ==
    \/ (side = Sell /\ LessThan(a.Rate, b.Rate))
    \/ (side = Buy /\ GreaterThan(a.Rate, b.Rate))
    \/ (a.Rate = b.Rate /\ a.CreatedAt < b.CreatedAt)

\* the counter orders of the fills before the k-th fill of the step
EarlierCounters(k) == {hist'[q].dst.ID : q \in 1..(k - 1)}

\* C11: the counter order of every fill is an Active Limit order of the
\* opposite side, and no other Active Limit order of that side still in the
\* book has a better rate, or the same rate and an earlier created_at.
C11_PriceTimePriority ==
    [][\A k \in 1..Len(hist') :
        /\ hist'[k].dst.Side # hist'[k].src.Side
        /\ hist'[k].dst.ID \in Book(hist'[k].dst.Side)
        /\ \A j \in Book(hist'[k].dst.Side) \ EarlierCounters(k) :
               ~HasPriority(orders[j], orders[hist'[k].dst.ID], hist'[k].dst.Side)
    ]_vars

\* two limit Sells rest at the same rate; a Buy was filled against the
\* earlier one only
C11_Witness ==
    /\ last.err = Ok
    /\ Len(orders) = 3
    /\ Len(hist) = 1
    /\ orders[1].Type = Limit /\ orders[1].Side = Sell
    /\ orders[2].Type = Limit /\ orders[2].Side = Sell
    /\ orders[1].Rate = orders[2].Rate
    /\ hist[1].src.ID = 3
    /\ hist[1].dst.ID = 1
    /\ orders[2].Status = Active
    /\ orders[2].Remaining = orders[2].Value

\* C12: every fill of a limit Buy has M.rate <= O.rate and every fill of a
\* limit Sell has M.rate >= O.rate; every fill executes at the rate of the
\* resting order; a limit order that is still Active after its placement
\* has stopped at a best counter that fails the test, so no Active Limit
\* order of the other side crosses it.
C12_CrossCheck ==
    [][/\ \A k \in 1..Len(hist') :
            /\ hist'[k].rate = orders[hist'[k].dst.ID].Rate
            /\ hist'[k].rate = hist'[k].dst.Rate
            /\ hist'[k].src.Type = Limit =>
                /\ hist'[k].src.Side = Buy => LessThanOrEqual(hist'[k].dst.Rate, hist'[k].src.Rate)
                /\ hist'[k].src.Side = Sell => LessThanOrEqual(hist'[k].src.Rate, hist'[k].dst.Rate)
       /\ (PlacedLimit /\ orders'[last'.id].Status = Active) =>
            \A j \in 1..Len(orders') :
                ~Crosses(orders'[j], last'.side, last'.rate)
    ]_vars

\* Sells rest at rates 2 and 3; a limit Buy at 2 for more than the first
\* Sell was filled at 2 and stopped at the Sell at 3
C12_Witness ==
    /\ last.op = "PlaceLimitOrder"
    /\ last.err = Ok
    /\ last.side = Buy
    /\ last.rate = D(2)
    /\ Len(orders) = 3
    /\ Len(hist) = 1
    /\ hist[1].rate = D(2)
    /\ orders[3].Status = Active
    /\ GreaterThan(orders[3].Remaining, Zero)
    /\ LessThan(orders[3].Remaining, orders[3].Value)
    /\ \E j \in 1..2 :
           /\ orders[j].Side = Sell
           /\ orders[j].Rate = D(3)
           /\ orders[j].Status = Active
           /\ orders[j].Remaining = orders[j].Value

\* the k-th fill of the operation improves on the price of its Buy aggressor
PriceImproved(f) == f.src.Side = Buy /\ LessThan(f.rate, f.src.Rate)

\* C13: a fill of a limit Buy aggressor O at a resting rate r < O.rate is
\* followed, after its two credits, by a credit of amount*(O.rate - r) of the
\* buy currency to O's owner, so that the escrow less the rebate is amount*r;
\* a fill at r = O.rate and a fill of a Sell aggressor write the two credits
\* and nothing else.
C13_Rebate ==
    last.op = "PlaceLimitOrder" =>
        \A k \in 1..Len(hist) :
            IF PriceImproved(hist[k])
            THEN /\ FillTo(k) = FillFrom(k) + 2
                 /\ txs[FillTo(k)] =
                        Tx(hist[k].src.UserID, CurrencyBuy,
                           Mul(hist[k].amount, Sub(hist[k].src.Rate, hist[k].rate)))
                 /\ Sub(Mul(hist[k].amount, hist[k].src.Rate), txs[FillTo(k)].value)
                        = Mul(hist[k].amount, hist[k].rate)
            ELSE /\ FillTo(k) = FillFrom(k) + 1
                 /\ hist[k].src.Side = Buy => hist[k].rate = hist[k].src.Rate

\* a limit Buy at 3 was filled by a Sell resting at 2 and got the difference back
C13_Witness ==
    /\ last.op = "PlaceLimitOrder"
    /\ last.err = Ok
    /\ last.side = Buy
    /\ last.rate = D(3)
    /\ Len(hist) = 1
    /\ hist[1].rate = D(2)
    /\ Len(txs) = 4
    /\ txs[4] = Tx(last.user, CurrencyBuy, Mul(hist[1].amount, D(1)))

\* what C14 expects the k-th fill, of a Market Sell, to write for (u, c)
MarketSellExpected(f, u, c) ==
    DecimalAdd(
        DecimalAdd(
            IF u = f.src.UserID /\ c = CurrencyBuy
            THEN Mul(Sub(f.amount, f.srcFee), f.rate) ELSE Zero,
            IF u = f.src.UserID /\ c = CurrencySell THEN Neg(f.amount) ELSE Zero),
        IF u = f.dst.UserID /\ c = CurrencySell THEN Sub(f.amount, f.dstFee) ELSE Zero)

\* C14 as stated: every fill of a Market Sell takes amount of the sell
\* currency from the seller, credits the seller (amount - fee_O)*r of the buy
\* currency and credits the resting buyer amount - fee_M of the sell currency.
C14_MarketSellSettlement ==
    (last.op = "PlaceMarketOrder" /\ last.err = Ok /\ last.side = Sell) =>
        \A k \in 1..Len(hist) :
            /\ hist[k].srcFee = FeeSeller(hist[k])
            /\ hist[k].dstFee = FeeBuyer(hist[k])
            /\ \A u \in Users, c \in Currencies :
                   SumTx(txs, FillFrom(k), FillTo(k), u, c)
                       = MarketSellExpected(hist[k], u, c)

\* what the k-th fill, of a Market Buy, writes for (u, c)
MarketBuyExpected(f, u, c) ==
    DecimalAdd(
        DecimalAdd(
            IF u = f.src.UserID /\ c = CurrencyBuy THEN Neg(Mul(f.amount, f.rate)) ELSE Zero,
            IF u = f.src.UserID /\ c = CurrencySell THEN Sub(f.amount, f.srcFee) ELSE Zero),
        IF u = f.dst.UserID /\ c = CurrencyBuy
        THEN Mul(Sub(f.amount, f.dstFee), f.rate) ELSE Zero)

PlacedMarketBuy == last.op = "PlaceMarketOrder" /\ last.err = Ok /\ last.side = Buy

\* C15: every fill of a Market Buy executes at the resting Sell's rate,
\* debits the buyer amount*r of the buy currency, credits the buyer
\* amount - fee_O of the sell currency and credits the resting seller
\* (amount - fee_M)*r of the buy currency; a Market Buy placed on a book with
\* an Active Limit Sell is filled against the best one whatever its rate.
C15_MarketBuySettlement ==
    /\ [](PlacedMarketBuy =>
            \A k \in 1..Len(hist) :
                /\ hist[k].rate = hist[k].dst.Rate
                /\ hist[k].srcFee = FeeBuyer(hist[k])
                /\ hist[k].dstFee = FeeSeller(hist[k])
                /\ \A u \in Users, c \in Currencies :
                       SumTx(txs, FillFrom(k), FillTo(k), u, c)
                           = MarketBuyExpected(hist[k], u, c))
    /\ [][(PlacedMarketBuy' /\ Book(Sell) # {}) =>
            /\ Len(hist') >= 1
            /\ hist'[1].dst.ID \in Book(Sell)
            /\ \A j \in Book(Sell) :
                   ~HasPriority(orders[j], orders[hist'[1].dst.ID], Sell)
       ]_vars

\* a Market Buy of 50 was filled in full by a Sell resting at 3
C15_Witness ==
    /\ PlacedMarketBuy
    /\ Len(hist) = 1
    /\ hist[1].amount = D(50)
    /\ orders[last.id].Status = Matched
    /\ txs = <<Tx(last.user, CurrencySell, Dec49875),
               Tx(last.user, CurrencyBuy, D(-150)),
               Tx(hist[1].dst.UserID, CurrencyBuy, Mul(D(3), Dec49875))>>

\* C16 as stated: after a successful PlaceMarketOrder the market order is
\* Matched with remaining = 0 or Cancelled with its unfilled remaining, the
\* only ledger calls of the operation are those of its fills (the
\* cancellation of the residual refunds nothing), and a market order placed
\* on a book without a counter order leaves every balance unchanged.
C16_MarketResidual ==
    [][(last'.op = "PlaceMarketOrder" /\ last'.err = Ok) =>
        /\ \/ /\ orders'[last'.id].Status = Matched
              /\ orders'[last'.id].Remaining = Zero
           \/ /\ orders'[last'.id].Status = Cancelled
              /\ GreaterThan(orders'[last'.id].Remaining, Zero)
        /\ Len(txs') = 3 * Len(hist')
        /\ Len(hist') = 0 => bal' = bal
    ]_vars

\* the error validation returns for a request, Ok when the request is valid;
\* a limit request has a rate, a market request has none
ValidationError(op, side, rate, value) ==
    IF LessThanOrEqual(value, Zero) THEN ErrInvalidValue
    ELSE IF op = "PlaceLimitOrder" /\ LessThanOrEqual(rate, Zero) THEN ErrInvalidRate
    ELSE IF ~ValidSide(side) THEN ErrInvalidSide
    ELSE Ok

\* C17: PlaceLimitOrder returns InvalidValue for value <= 0, InvalidRate for
\* rate <= 0 and InvalidSide for a side outside {Buy, Sell}, PlaceMarketOrder
\* returns InvalidValue for value <= 0 and InvalidSide for an invalid side
\* (the checks are made in this order); in each case no order is written,
\* no balance changes and no ledger call is made.
C17_ValidationAtomic ==
    [][(/\ last'.op \in {"PlaceLimitOrder", "PlaceMarketOrder"}
        /\ ValidationError(last'.op, last'.side, last'.rate, last'.value) # Ok)
       => (/\ last'.err = ValidationError(last'.op, last'.side, last'.rate, last'.value)
           /\ orders' = orders
           /\ bal' = bal
           /\ txs' = <<>>
           /\ hist' = <<>>)
    ]_vars

\* a limit order with a valid value and rate and an invalid side was
\* rejected while an order rests in the book
C17_Witness ==
    /\ last.op = "PlaceLimitOrder"
    /\ last.err = ErrInvalidSide
    /\ GreaterThan(last.value, Zero)
    /\ GreaterThan(last.rate, Zero)
    /\ ~ValidSide(last.side)
    /\ Len(orders) = 1
    /\ orders[1].Status = Active
    /\ txs = <<>>

\* C18: CancelOrder with an id the repository does not hold returns
\* ErrOrderNotFound and changes no order and no balance.
C18_CancelUnknown ==
    [][(last'.op = "CancelOrder" /\ last'.id \notin 1..Len(orders))
       => (/\ last'.err = ErrOrderNotFound
           /\ orders' = orders
           /\ bal' = bal
           /\ txs' = <<>>)
    ]_vars

\* the repository holds one order, Active, and the cancel of id 2 was refused
C18_Witness ==
    /\ last.op = "CancelOrder"
    /\ last.err = ErrOrderNotFound
    /\ last.id = 2
    /\ Len(orders) = 1
    /\ orders[1].Status = Active

\* the escrow debit of the request of the step is one the ledger refuses
EscrowRefused ==
    /\ last'.op = "PlaceLimitOrder"
    /\ ValidationError(last'.op, last'.side, last'.rate, last'.value) = Ok
    /\ LessThan(bal[last'.user][getCurrency(last'.side)],
                Neg(EscrowOf(last'.side, last'.rate, last'.value)))

\* C19: when the ledger refuses the escrow debit of PlaceLimitOrder, the
\* ledger's error is returned, no order is created and no matching is run;
\* a PlaceLimitOrder that returns the ledger's error has changed nothing.
C19_EscrowFailure ==
    [][/\ EscrowRefused => last'.err = ErrBalanceNotEnough
       /\ (last'.op = "PlaceLimitOrder" /\ last'.err = ErrBalanceNotEnough) =>
            /\ EscrowRefused
            /\ orders' = orders
            /\ now' = now
            /\ bal' = bal
            /\ txs' = <<>>
            /\ hist' = <<>>
            /\ last'.created = ZeroOrder
    ]_vars

\* a limit order was refused for its escrow while an order rests in the book
C19_Witness ==
    /\ last.op = "PlaceLimitOrder"
    /\ last.err = ErrBalanceNotEnough
    /\ Len(orders) = 1
    /\ orders[1].Status = Active
    /\ txs = <<>>
    /\ LessThan(bal[last.user][getCurrency(last.side)],
                Neg(EscrowOf(last.side, last.rate, last.value)))

\* a placement of the step has failed during its matching
MatchingFailed ==
    /\ last'.op \in {"PlaceLimitOrder", "PlaceMarketOrder"}
    /\ last'.err # Ok
    /\ Len(orders') = Len(orders) + 1

\* the fill during which the matching of the step failed is its last one
FailedFill == hist'[Len(hist')]

\* the placement of the step
Placement == Request(last'.op, last'.user, last'.side, last'.rate, last'.value, 0)

\* the placement of the step over stores that answer every call: its return
\* value, and the number of Repository calls it makes
Unfailed == Handler(Begin, Placement)

\* the placement of the step cut off before its n-th Repository call, over
\* stores that answer every call
CutBefore(n) == Handler([Begin EXCEPT !.budget = n - 1], Placement)

\* the stores after the step are the ones cs left
LeftBy(cs) ==
    /\ orders' = cs.orders
    /\ bal' = cs.bal
    /\ now' = cs.now
    /\ hist' = cs.hist
    /\ txs' = cs.txs

\* the counter orders of the fills of the step are reduced by the fills, and
\* no other order is touched
CountersReduced ==
    /\ \A k \in 1..Len(hist') :
           /\ orders'[hist'[k].dst.ID].Remaining
                  = Sub(orders[hist'[k].dst.ID].Remaining, hist'[k].amount)
           /\ orders'[hist'[k].dst.ID].Status
                  = IF orders'[hist'[k].dst.ID].Remaining = Zero THEN Matched ELSE Active
           /\ orders'[hist'[k].dst.ID].MatchedAt = orders[hist'[k].dst.ID].MatchedAt + 1
    /\ \A i \in 1..Len(orders) :
           (\A k \in 1..Len(hist') : hist'[k].dst.ID # i) => orders'[i] = orders[i]

\* C20: when a Repository call or a ledger call made during the matching of
\* a placement returns an error, the placement returns that error; the
\* failing call is the last call of the placement (no call of the rest of the
\* matching, no write-back, no cancel, no compensating call); and what was
\* applied before it stays.  For the store failing the n-th Repository call
\* of the placement, of the exchange or of the wallet: the placement returns
\* the store's error whenever it gets as far as that call, and the orders,
\* balances, history and journal are then exactly what the first n - 1 calls
\* of the placement leave.  For a ledger call refused for the balance: the
\* placement returns ErrBalanceNotEnough, and the new order as created, the
\* counter orders as reduced, the history entries, the credit made before
\* the refused debit and the ledger calls of the earlier fills all stay.
C20_FailureSemantics ==
    [][/\ (last'.op \in {"PlaceLimitOrder", "PlaceMarketOrder"}
           /\ last'.fault \in 1..Unfailed.calls) =>
               /\ last'.err = ErrRepository
               /\ CutBefore(last'.fault).err = Suspended
               /\ LeftBy(CutBefore(last'.fault))
       /\ MatchingFailed =>
            /\ last'.err \in {ErrRepository, ErrBalanceNotEnough}
            /\ last'.err = ErrRepository <=> last'.fault \in 1..Unfailed.calls
            /\ last'.err = ErrBalanceNotEnough =>
                 /\ last'.op = "PlaceMarketOrder"
                 /\ Unfailed.err = ErrBalanceNotEnough
                 /\ Len(hist') >= 1
                 /\ Len(txs') = 3 * (Len(hist') - 1) + 1
                 /\ FailedFill.at = Len(txs') - 1
                 /\ txs'[Len(txs')] = Tx(FailedFill.src.UserID, getCurrency(FailedFill.dst.Side),
                                         Sub(FailedFill.amount, FailedFill.srcFee))
                 /\ LessThan(bal'[last'.user][getCurrency(last'.side)],
                             Neg(Mul(FailedFill.amount, FailedFill.rate)))
                 /\ LedgerFollowsJournal
                 /\ orders'[Len(orders')] = last'.created
                 /\ last'.created.Status = Active
                 /\ last'.created.Remaining = last'.value
                 /\ last'.created.MatchedAt = 0
                 /\ CountersReduced
    ]_vars

\* a limit Buy failed at the store call that credits the seller, in its
\* first fill: the resting Sell is Matched and finished, the history entry
\* is written and the buyer holds the credit, the seller has no credit and
\* the limit order is still as it was created
C20_Witness ==
    /\ last.op = "PlaceLimitOrder"
    /\ last.side = Buy
    /\ last.err = ErrRepository
    /\ Len(hist) = 1
    /\ Len(txs) = 2
    /\ txs[2].user = last.user
    /\ orders[hist[1].dst.ID].Status = Matched
    /\ orders[hist[1].dst.ID].FinishedAt = 1
    /\ orders[Len(orders)].Status = Active
    /\ orders[Len(orders)].Remaining = orders[Len(orders)].Value
    /\ orders[Len(orders)].MatchedAt = 0

\* the step is a wallet Add of a debit the balance is numerically less than
DebitRefused ==
    /\ last'.op = "Add"
    /\ LessThan(last'.value, Zero)
    /\ LessThan(bal[last'.user][last'.currency], last'.value)

\* C21: Add with delta < 0 fails with ErrBalanceNotEnough and leaves every
\* balance unchanged exactly when balance < delta; every other Add with
\* delta # 0 succeeds and makes the balance balance + delta, no other
\* balance changing.
C21_DebitCheck ==
    [][last'.op = "Add" =>
        /\ DebitRefused =>
            /\ last'.err = ErrBalanceNotEnough
            /\ bal' = bal
        /\ (~DebitRefused /\ last'.value # Zero) =>
            /\ last'.err = Ok
            /\ bal' = [bal EXCEPT ![last'.user][last'.currency] =
                                      DecimalAdd(@, last'.value)]
        /\ last'.err = ErrBalanceNotEnough => DebitRefused
    ]_vars

\* a debit of 50 was refused on a balance below -50
C21_Witness ==
    /\ last.op = "Add"
    /\ last.err = ErrBalanceNotEnough
    /\ last.value = D(-50)
    /\ LessThan(bal[last.user][last.currency], D(-50))
    /\ txs = <<>>

\* C22: a successful Add with delta # 0 appends exactly one journal entry,
\* (user, currency, delta); an Add with delta = 0 returns success, changes no
\* balance and appends no entry; a refused Add appends no entry.
C22_Journal ==
    [][last'.op = "Add" =>
        /\ (last'.value # Zero /\ last'.err = Ok) =>
               txs' = <<Tx(last'.user, last'.currency, last'.value)>>
        /\ last'.value = Zero =>
            /\ last'.err = Ok
            /\ txs' = <<>>
            /\ bal' = bal
        /\ last'.err # Ok => txs' = <<>>
        /\ LedgerFollowsJournal
    ]_vars

\* an Add of zero on an overdrawn balance returned success and wrote nothing
C22_Witness ==
    /\ last.op = "Add"
    /\ last.value = Zero
    /\ last.err = Ok
    /\ txs = <<>>
    /\ LessThan(bal[last.user][last.currency], Zero)

\* C23: Transfer of 0 returns success and changes nothing; Transfer of a
\* negative amount fails with the wallet's ErrInvalidValue and changes
\* nothing; Transfer of amount > 0 calls Add(src, -amount) and then
\* Add(dst, +amount), and on success the sum of the two balances is
\* unchanged, the balance itself when src = dst.
C23_Transfer ==
    [][last'.op = "Transfer" =>
        /\ last'.value = Zero =>
            /\ last'.err = Ok
            /\ bal' = bal
            /\ txs' = <<>>
        /\ LessThan(last'.value, Zero) =>
            /\ last'.err = WalletErrInvalidValue
            /\ bal' = bal
            /\ txs' = <<>>
        /\ (GreaterThan(last'.value, Zero) /\ last'.err = Ok) =>
            /\ txs' = <<Tx(last'.user, last'.currency, Neg(last'.value)),
                        Tx(last'.dst, last'.currency, last'.value)>>
            /\ LedgerFollowsJournal
            /\ DecimalAdd(bal'[last'.user][last'.currency], bal'[last'.dst][last'.currency])
                   = DecimalAdd(bal[last'.user][last'.currency],
                                bal[last'.dst][last'.currency])
            /\ last'.user = last'.dst => bal' = bal
    ]_vars

\* 10 was transferred from one user to the other
C23_Witness ==
    /\ last.op = "Transfer"
    /\ last.err = Ok
    /\ last.value = D(10)
    /\ last.user # last.dst
    /\ txs = <<Tx(last.user, last.currency, D(-10)), Tx(last.dst, last.currency, D(10))>>

\* the transfer of the step is of a positive amount
TransferStep == last'.op = "Transfer" /\ GreaterThan(last'.value, Zero)

\* the debit of the transfer is refused: the balance of src is below -amount
TransferRefused == LessThan(bal[last'.user][last'.currency], Neg(last'.value))

\* the debit step of the transfer fails: its GetBalance call (1) fails, it is
\* refused, or its AddBalance (2) or InsertTx (3) call fails
DebitStepFails ==
    TransferStep /\ (last'.fault \in 1..3 \/ TransferRefused)

\* the credit step fails after a successful debit: its AddBalance (4) or
\* InsertTx (5) call fails
CreditStepFails ==
    TransferStep /\ ~DebitStepFails /\ last'.fault \in 4..5

\* C24: Transfer is sequential and not rolled back: a failing debit step
\* changes no balance and never credits dst, and a credit step that fails after
\* a successful debit returns the error and leaves src debited by the amount
C24_NoRollback ==
    [][/\ DebitStepFails => (last'.err # Ok /\ bal' = bal)
       /\ CreditStepFails =>
            /\ last'.err # Ok
            /\ bal'[last'.user][last'.currency]
                 = Sub(bal[last'.user][last'.currency], last'.value)]_vars

\* the resting orders whose remaining the step changed
FilledCounters == {i \in 1..Len(orders) : orders'[i].Remaining # orders[i].Remaining}

\* C25: the history entries of one placement are in match order: the rates
\* are non-decreasing for a Buy aggressor and non-increasing for a Sell
\* aggressor, entries of equal rate are in increasing created_at of their
\* resting orders, and there is exactly one entry per fill: the resting orders
\* the step reduced are the counter orders of the entries, each reduced by
\* the amount of its one entry.
C25_HistoryOrder ==
    [][last'.op \in {"PlaceLimitOrder", "PlaceMarketOrder"} =>
        /\ \A k \in 1..(Len(hist') - 1) :
              /\ hist'[k].src.Side = Buy =>
                    LessThanOrEqual(hist'[k].rate, hist'[k + 1].rate)
              /\ hist'[k].src.Side = Sell =>
                    LessThanOrEqual(hist'[k + 1].rate, hist'[k].rate)
              /\ hist'[k].rate = hist'[k + 1].rate =>
                    hist'[k].dst.CreatedAt < hist'[k + 1].dst.CreatedAt
        /\ Cardinality(FilledCounters) = Len(hist')
        /\ \A k \in 1..Len(hist') :
              /\ hist'[k].dst.ID \in FilledCounters
              /\ hist'[k].rate = orders[hist'[k].dst.ID].Rate
              /\ hist'[k].amount
                   = Sub(orders[hist'[k].dst.ID].Remaining,
                         orders'[hist'[k].dst.ID].Remaining)
    ]_vars

\* a Buy placement that filled two resting sell orders of different rates
C25_Witness ==
    /\ last.op = "PlaceLimitOrder" /\ last.side = Buy /\ last.err = Ok
    /\ Len(hist) = 2
    /\ LessThan(hist[1].rate, hist[2].rate)
    /\ hist[1].dst.ID # hist[2].dst.ID

\* what the claim compares: the statuses and remainings of the orders, and the
\* balances
Observed(os, bs) ==
    [orders |-> [i \in 1..Len(os) |-> [Status |-> os[i].Status, Remaining |-> os[i].Remaining]],
     bal |-> bs]

ObservedOf(cs) == Observed(cs.orders, cs.bal)

\* a call state for the next operation of a serial execution, over the
\* stores the operation before it left
After(stores) ==
    [Begin EXCEPT !.orders = stores.orders, !.bal = stores.bal, !.now = stores.now]

\* the serial execution of request a and then request b, from the stores
\* the first of the two calls started on
Serial(a, b) == Handler(After(Handler(After(pending'.start), a)), b)

\* the step is the return of the later of two calls that were in progress
\* at the same time
OverlapDone ==
    /\ pending.calls # <<>>
    /\ pending'.calls = <<>>
    /\ Len(pending'.between) = 2

\* C26: when the Repository and Ledger calls of two public operations
\* interleave at call boundaries, the final statuses, remainings and balances
\* are those of one of the two serial executions of the two operations.
C26_Linearizable ==
    [][OverlapDone =>
         Observed(orders', bal') \in
             {ObservedOf(Serial(pending'.between[1], pending'.between[2])),
              ObservedOf(Serial(pending'.between[2], pending'.between[1]))}]_vars

\* the escrow an order holds: that of its remaining while it is Active
Held(o) == IF o.Status = Active THEN EscrowOf(o.Side, o.Rate, o.Remaining) ELSE Zero

\* what the first k fills in h took of the escrow of order i: amount*rate of a
\* Buy, amount of a Sell
RECURSIVE Consumed(_, _, _)
Consumed(h, i, k) ==
    IF k = 0 THEN Zero
    ELSE DecimalAdd(
             IF h[k].src.ID = i THEN EscrowOf(h[k].src.Side, h[k].rate, h[k].amount)
             ELSE IF h[k].dst.ID = i THEN EscrowOf(h[k].dst.Side, h[k].rate, h[k].amount)
             ELSE Zero,
             Consumed(h, i, k - 1))

\* the rebates of the first k fills: what a fill credits in the buy currency
\* after its two credits
RECURSIVE Rebates(_)
Rebates(k) ==
    IF k = 0 THEN Zero
    ELSE DecimalAdd(SumCurrency(txs, FillFrom(k) + 2, FillTo(k), CurrencyBuy),
                    Rebates(k - 1))

\* the order a successful PlaceLimitOrder created: escrow less rebates is what
\* its fills took plus what it still holds
PlacedOrderAccount ==
    (last.op = "PlaceLimitOrder" /\ last.err = Ok) =>
        /\ txs[1] = Tx(last.user, getCurrency(last.side),
                       Neg(EscrowOf(last.side, last.rate, last.value)))
        /\ Sub(EscrowOf(last.side, last.rate, last.value), Rebates(Len(hist)))
             = DecimalAdd(Consumed(hist, last.id, Len(hist)), Held(orders[last.id]))
        /\ orders[last.id].Status # Active => Held(orders[last.id]) = Zero

\* an order that existed before the step: a CancelOrder of it while Active
\* returns exactly what it held, and any other step takes from what it held
\* exactly what the fills of the step took
RestingOrderAccount ==
    last'.op \in ExchangeOps =>
        \A i \in 1..Len(orders) :
            orders[i].Type = Limit =>
                IF last'.op = "CancelOrder" /\ last'.id = i /\ orders[i].Status = Active
                THEN /\ txs' = <<Tx(orders[i].UserID, getCurrency(orders[i].Side),
                                    Held(orders[i]))>>
                     /\ orders'[i].Status = Cancelled
                     /\ Held(orders'[i]) = Zero
                ELSE Held(orders[i])
                         = DecimalAdd(Consumed(hist', i, Len(hist')), Held(orders'[i]))

\* C27: for every limit order, the escrow taken at placement less the rebates
\* and the cancel refund equals the sum over its fills of amount*rate (Buy) or
\* amount (Sell) plus remaining*rate (Buy) or remaining (Sell) while it is
\* Active: a Matched order holds nothing and a Cancelled order was returned
\* exactly what it held.
C27_EscrowAccounting == [](PlacedOrderAccount) /\ [][RestingOrderAccount]_vars

\* a limit Buy that filled at a better rate, got the rebate and rests with the
\* escrow of its remaining
C27_Witness ==
    /\ last.op = "PlaceLimitOrder" /\ last.side = Buy /\ last.err = Ok
    /\ Len(hist) >= 1
    /\ LessThan(hist[1].rate, last.rate)
    /\ GreaterThan(Rebates(Len(hist)), Zero)
    /\ orders[last.id].Status = Active
    /\ GreaterThan(Held(orders[last.id]), Zero)

\* a limit Buy and a limit Sell of one rate were placed on the empty book, and
\* the second has just been placed
PairPlaced ==
    /\ last.op = "PlaceLimitOrder" /\ last.err = Ok /\ last.id = 2
    /\ Len(orders) = 2
    /\ orders[1].Type = Limit /\ orders[2].Type = Limit
    /\ orders[1].Side # orders[2].Side
    /\ orders[1].Rate = orders[2].Rate
    /\ orders[1].Status # Cancelled

\* the status and the remaining of the order of a side among two orders
OfSide(os, side) ==
    LET i == CHOOSE j \in 1..2 : os[j].Side = side
    IN  [Status |-> os[i].Status, Remaining |-> os[i].Remaining]

PairOutcome(os, bs) == [buy |-> OfSide(os, Buy), sell |-> OfSide(os, Sell), bal |-> bs]

\* the two placements in the other arrival order, on the preloaded wallets
PlacedInReverse ==
    PlaceLimitOrder(
        After(PlaceLimitOrder(After(Preload), orders[2].UserID, orders[2].Side,
                              orders[2].Rate, orders[2].Value)),
        orders[1].UserID, orders[1].Side, orders[1].Rate, orders[1].Value)

\* C28: a limit Buy and a limit Sell of the same rate placed on the empty book
\* end with the same statuses, remainings and balances in either arrival order.
C28_ArrivalSymmetry ==
    PairPlaced =>
        /\ PlacedInReverse.err = Ok
        /\ PairOutcome(orders, bal)
             = PairOutcome(PlacedInReverse.orders, PlacedInReverse.bal)

\* a Buy of 100 placed after a Sell of 50 of the same rate by another user: the
\* Sell is Matched and the Buy rests with 50
C28_Witness ==
    /\ PairPlaced
    /\ orders[1].Side = Sell /\ orders[1].Value = D(50) /\ orders[1].Status = Matched
    /\ orders[2].Side = Buy /\ orders[2].Value = D(100) /\ orders[2].Status = Active
    /\ orders[2].Remaining = D(50)
    /\ orders[1].UserID # orders[2].UserID
    /\ Len(hist) = 1

Min(a, b) == IF LessThanOrEqual(a, b) THEN a ELSE b

\* the remaining of the aggressor before the k-th fill of the step: its value
\* before the first fill, what the fill before left otherwise
AggressorBefore(k) == IF k = 1 THEN last'.value ELSE hist'[k - 1].src.Remaining

\* the remaining of the counter order of the k-th fill before the fill
CounterBefore(k) == orders[hist'[k].dst.ID].Remaining

\* C29: every fill of a limit or market placement has amount =
\* min(O.remaining, M.remaining) > 0 and reduces both remainings by the
\* amount; after it O or M has remaining 0 and is Matched; a counter order
\* that is filled in part stays Active with the reduced remaining.
C29_FillSize ==
    [][last'.op \in {"PlaceLimitOrder", "PlaceMarketOrder"} =>
        /\ \A k \in 1..Len(hist') :
              /\ hist'[k].amount = Min(AggressorBefore(k), CounterBefore(k))
              /\ GreaterThan(hist'[k].amount, Zero)
              /\ hist'[k].src.Remaining = Sub(AggressorBefore(k), hist'[k].amount)
              /\ hist'[k].dst.Remaining = Sub(CounterBefore(k), hist'[k].amount)
              /\ orders'[hist'[k].dst.ID].Remaining = hist'[k].dst.Remaining
              /\ orders'[hist'[k].dst.ID].Status = hist'[k].dst.Status
              /\ \/ hist'[k].src.Remaining = Zero /\ hist'[k].src.Status = Matched
                 \/ hist'[k].dst.Remaining = Zero /\ hist'[k].dst.Status = Matched
              /\ GreaterThan(hist'[k].dst.Remaining, Zero) => hist'[k].dst.Status = Active
              /\ GreaterThan(hist'[k].src.Remaining, Zero) => hist'[k].src.Status = Active
        /\ (last'.err = Ok /\ Len(hist') > 0 /\ last'.op = "PlaceLimitOrder") =>
              /\ orders'[last'.id].Remaining = hist'[Len(hist')].src.Remaining
              /\ orders'[last'.id].Status = hist'[Len(hist')].src.Status
    ]_vars

\* a resting Sell of 100 hit by a Buy of 50 is left Active with 50
C29_Witness ==
    /\ last.op \in {"PlaceLimitOrder", "PlaceMarketOrder"} /\ last.err = Ok
    /\ last.side = Buy /\ last.value = D(50)
    /\ Len(hist) = 1
    /\ hist[1].amount = D(50)
    /\ hist[1].dst.Side = Sell /\ hist[1].dst.Value = D(100)
    /\ orders[hist[1].dst.ID].Status = Active
    /\ orders[hist[1].dst.ID].Remaining = D(50)
    /\ hist[1].src.Status = Matched

\* the Active limit orders a placement of a side can be matched with
Counters(side) == IF side = Buy THEN Book(Sell) ELSE IF side = Sell THEN Book(Buy) ELSE {}

\* C30: the matching run of a placement ends, having made at most as many
\* fills as there were Active limit orders of the opposite side when it
\* started: every fill that leaves the aggressor Active turns its counter
\* order Matched, and no counter order is filled twice.
C30_Termination ==
    [][last'.op \in {"PlaceLimitOrder", "PlaceMarketOrder"} =>
        /\ Len(hist') <= Cardinality(Counters(last'.side))
        /\ \A k \in 1..Len(hist') :
              /\ hist'[k].dst.ID \in Counters(last'.side)
              /\ hist'[k].src.Status = Active =>
                    /\ hist'[k].dst.Status = Matched
                    /\ orders'[hist'[k].dst.ID].Status = Matched
              /\ \A j \in 1..(k - 1) : hist'[j].dst.ID # hist'[k].dst.ID
              /\ k < Len(hist') => hist'[k].src.Status = Active
    ]_vars

\* a placement that filled both resting orders of the opposite side and
\* rests with a remainder: as many fills as there were counter orders
C30_Witness ==
    /\ last.op = "PlaceLimitOrder" /\ last.err = Ok
    /\ Len(orders) = 3 /\ last.id = 3
    /\ Len(hist) = 2
    /\ hist[1].dst.ID # hist[2].dst.ID
    /\ orders[1].Status = Matched /\ orders[2].Status = Matched
    /\ hist[2].src.Status = Matched

\* C31: every InsertHistory call of a limit or market placement passes Buy as
\* the side, also when the aggressor is a Sell, with the rate of the counter
\* order and the amount of the fill, the aggressor as source and the counter
\* order as destination.
C31_HistorySide ==
    [][last'.op \in {"PlaceLimitOrder", "PlaceMarketOrder"} =>
        \A k \in 1..Len(hist') :
            /\ hist'[k].side = Buy
            /\ hist'[k].src.Side = last'.side
            /\ hist'[k].src.UserID = last'.user
            /\ hist'[k].dst.Side # last'.side
            /\ hist'[k].rate = orders[hist'[k].dst.ID].Rate
            /\ hist'[k].amount
                 = Sub(orders[hist'[k].dst.ID].Remaining, orders'[hist'[k].dst.ID].Remaining)
            /\ hist'[k].srcFee
                 = FeeOf(last'.user, last'.side, hist'[k].src.Rate, hist'[k].amount)
    ]_vars

\* a limit Sell that filled a resting Buy: the entry is recorded with side Buy
C31_Witness ==
    /\ last.op = "PlaceLimitOrder" /\ last.side = Sell /\ last.err = Ok
    /\ Len(hist) = 1
    /\ hist[1].src.Side = Sell
    /\ hist[1].side = Buy
    /\ GreaterThan(hist[1].amount, Zero)

\* C32: matched_at is stamped only by the fills of an order: an order of
\* which nothing was ever filled has matched_at unset.
C32_MatchedStamp ==
    \A i \in 1..Len(orders) :
        orders[i].Remaining = orders[i].Value => orders[i].MatchedAt = 0

\* no Active limit Buy has a rate at or above the rate of an Active limit Sell
Uncrossed ==
    \A b \in Book(Buy), a \in Book(Sell) : LessThan(orders[b].Rate, orders[a].Rate)

\* C33: from the empty book on, after every successfully completed public
\* operation the highest rate of the Active limit Buy orders is strictly
\* below the lowest rate of the Active limit Sell orders.
C33_UncrossedBook == Completed => Uncrossed

\* a limit Buy filled the resting Sell it crossed and rests below the other
\* resting Sell
C33_Witness ==
    /\ last.op = "PlaceLimitOrder" /\ last.side = Buy /\ last.err = Ok
    /\ Len(hist) = 1
    /\ last.id \in Book(Buy)
    /\ Book(Sell) # {}
    /\ \E a \in Book(Sell) : LessThan(orders[last.id].Rate, orders[a].Rate)

\* the journal entries the operation wrote between the k-th InsertHistory call
\* and the next one, or its return
EntriesOfFill(k) ==
    (hist'[k].at + 1)..(IF k < Len(hist') THEN hist'[k + 1].at ELSE Len(txs'))

\* the owner of the counter order of the k-th fill is credited in the currency
\* the aggressor pays in
CounterCredited(k) ==
    \E j \in EntriesOfFill(k) :
        /\ txs'[j].user = hist'[k].dst.UserID
        /\ txs'[j].currency = getCurrency(hist'[k].src.Side)
        /\ GreaterThan(txs'[j].value, Zero)

\* C34: when a placement returns, with success or with an error, the owner of
\* every resting order it reduced has been credited for the fill, and the
\* persisted remaining and status of the aggressor are those left by the
\* fills applied to the resting orders.
C34_CounterpartyPaid ==
    [][last'.op \in {"PlaceLimitOrder", "PlaceMarketOrder"} =>
        /\ \A k \in 1..Len(hist') : CounterCredited(k)
        /\ (Len(hist') > 0 /\ Len(orders') > Len(orders)) =>
              /\ orders'[Len(orders')].Remaining = hist'[Len(hist')].src.Remaining
              /\ orders'[Len(orders')].Status = Matched
                    <=> hist'[Len(hist')].src.Remaining = Zero
    ]_vars

\* C35: every Add and Transfer, also one that returns an error of the backing
\* store, moves each balance by the sum of the journal entries it recorded,
\* so that every balance is the initial balance plus its journal entries; an
\* Add that returns an error leaves the balances unchanged.
C35_JournalAgreement ==
    [][last'.op \in {"Add", "Transfer"} =>
        /\ LedgerFollowsJournal
        /\ (last'.op = "Add" /\ last'.err # Ok) => bal' = bal
    ]_vars

\* the secret stored for the user of the call, before the call
StoredSecret == otpSecret[otpLast'.user]

\* the call returned the error of the Repository and left the store alone
StoreErrorReturned == otpLast'.err = ErrRepository /\ otpSecret' = otpSecret

\* C36: a user is enabled iff the stored secret is non-empty; Enable stores the
\* new secret only when the user is not enabled and the password verifies
\* against the new secret, and otherwise returns ErrAlreadyEnabled or
\* ErrInvalidPassword and leaves the store alone; Disable of an enabled user
\* clears the secret only when the password verifies against the stored
\* secret, and otherwise returns ErrInvalidPassword and leaves the store
\* alone; VerifyUser of a user with no secret succeeds for every password.
\* A call the Repository fails returns the Repository's error and leaves the
\* store alone, and no call changes the secret in any other case than the
\* ones above.
C36_TOTPUser ==
    [][/\ otpLast'.op = "IsEnabled" =>
            /\ otpSecret' = otpSecret
            /\ IF otpLast'.fault = 1
               THEN otpLast'.err = ErrRepository /\ ~otpLast'.enabled
               ELSE otpLast'.err = Ok /\ (otpLast'.enabled <=> StoredSecret # "")
       /\ otpLast'.op = "Enable" =>
            /\ otpSecret' # otpSecret =>
                  /\ StoredSecret = ""
                  /\ Verify(otpLast'.secret, otpLast'.password)
                  /\ otpLast'.err = Ok
            /\ IF otpLast'.fault = 1 THEN StoreErrorReturned
               ELSE IF StoredSecret # ""
               THEN otpLast'.err = ErrAlreadyEnabled /\ otpSecret' = otpSecret
               ELSE IF ~Verify(otpLast'.secret, otpLast'.password)
               THEN otpLast'.err = ErrInvalidPassword /\ otpSecret' = otpSecret
               ELSE IF otpLast'.fault = 2 THEN StoreErrorReturned
               ELSE /\ otpLast'.err = Ok
                    /\ otpSecret' = [otpSecret EXCEPT ![otpLast'.user] = otpLast'.secret]
       /\ (otpLast'.op = "Disable" /\ StoredSecret # "") =>
            /\ otpSecret' # otpSecret =>
                  Verify(StoredSecret, otpLast'.password) /\ otpLast'.err = Ok
            /\ IF otpLast'.fault = 1 THEN StoreErrorReturned
               ELSE IF ~Verify(StoredSecret, otpLast'.password)
               THEN otpLast'.err = ErrInvalidPassword /\ otpSecret' = otpSecret
               ELSE IF otpLast'.fault = 2 THEN StoreErrorReturned
               ELSE /\ otpLast'.err = Ok
                    /\ otpSecret' = [otpSecret EXCEPT ![otpLast'.user] = ""]
       /\ otpLast'.op = "VerifyUser" =>
            /\ otpSecret' = otpSecret
            /\ IF otpLast'.fault = 1 THEN otpLast'.err = ErrRepository
               ELSE /\ StoredSecret = "" => otpLast'.err = Ok
                    /\ StoredSecret # "" =>
                          (otpLast'.err = Ok <=> Verify(StoredSecret, otpLast'.password))
                    /\ otpLast'.err \in {Ok, ErrInvalidPassword}
    ]_vars

\* an Enable with the password of another secret was refused, while the other
\* user is enabled: nothing is stored for the user
C36_Witness ==
    /\ otpLast.op = "Enable"
    /\ otpLast.secret = "S1" /\ otpLast.password = "P2"
    /\ otpLast.err = ErrInvalidPassword
    /\ otpSecret[otpLast.user] = ""
    /\ \E u \in Users : otpSecret[u] = "S2"
====
